---- MODULE Spec2Model ----
(***************************************************************************)
(* Model of src/core/rules_engine.py (RulesEngine): the five-stage rule     *)
(* pipeline apply_all runs over one metadata record and the raw OCR text;   *)
(* of src/processors/exporter.py (Exporter) and of                         *)
(* src/processors/batch_processor.py (BatchProcessor.batch_process_archives)*)
(*                                                                         *)
(* Encoding.  A Python str is a sequence of characters; each character is   *)
(* an ASCII token (digits and ASCII punctuation stand for themselves, a     *)
(* Chinese character is written in pinyin, the token is given next to the   *)
(* character where it is introduced).  A Python value is a tagged record:   *)
(* None, a str or an int.  A dict is a function from the keys it holds.     *)
(***************************************************************************)
EXTENDS Integers, Sequences, FiniteSets, TLC

VARIABLES
    metadata,       \* the record apply_all is working on (dict, or None)
    ocr_text,       \* the raw text argument of apply_all (str or None)
    pc,             \* position of the invocation in apply_all
    period_locked,  \* local flag of _apply_supplementary_rules
    input,          \* the record as the caller passed it (history)
    other,          \* a second invocation of apply_all running concurrently:
                    \* its own metadata, ocr_text, pc, period_locked, input
    exporter,       \* Exporter: the class-level HEADERS, the call in progress,
                    \* the output file and the message printed
    batch           \* a call of batch_process_archives: its arguments, locals
                    \* and position

vars == <<metadata, ocr_text, pc, period_locked, input, other, exporter, batch>>

-----------------------------------------------------------------------------
(* Python values *)

PyNone == [t |-> "None"]
PyStr(s) == [t |-> "str", v |-> s]
PyInt(n) == [t |-> "int", v |-> n]

IsStr(x) == x.t = "str"
IsInt(x) == x.t = "int"

\* bool(x) for None, str and int
Truthy(x) ==
    CASE x.t = "None" -> FALSE
      [] x.t = "str" -> x.v # <<>>
      [] x.t = "int" -> x.v # 0

DigitChars == <<"0", "1", "2", "3", "4", "5", "6", "7", "8", "9">>
Digits == {DigitChars[i] : i \in 1..10}
DigitVal(c) == (CHOOSE i \in 1..10 : DigitChars[i] = c) - 1

RECURSIVE NatToStr(_)
NatToStr(n) ==
    IF n < 10 THEN <<DigitChars[n + 1]>>
    ELSE Append(NatToStr(n \div 10), DigitChars[(n % 10) + 1])

\* str(x): the characters of str(None) are N, o, n, e
str(x) ==
    CASE x.t = "None" -> <<"N", "o", "n", "e">>
      [] x.t = "str" -> x.v
      [] x.t = "int" -> IF x.v < 0 THEN <<"-">> \o NatToStr(0 - x.v) ELSE NatToStr(x.v)

\* x or "" followed by str(): str(x or "")
StrOrEmpty(x) == IF Truthy(x) THEN str(x) ELSE <<>>

WS == {" "}

RECURSIVE lstrip(_)
lstrip(s) == IF s # <<>> /\ Head(s) \in WS THEN lstrip(Tail(s)) ELSE s

RECURSIVE rstrip(_)
rstrip(s) ==
    IF s # <<>> /\ s[Len(s)] \in WS THEN rstrip(SubSeq(s, 1, Len(s) - 1)) ELSE s

strip(s) == lstrip(rstrip(s))

\* kw in s
Contains(s, kw) ==
    \E i \in 1..(Len(s) - Len(kw) + 1) : SubSeq(s, i, i + Len(kw) - 1) = kw

\* any(kw in s for kw in kws)
AnyIn(kws, s) == \E kw \in kws : Contains(s, kw)

RECURSIVE DigitsToNat(_)
DigitsToNat(s) ==
    IF s = <<>> THEN 0
    ELSE 10 * DigitsToNat(SubSeq(s, 1, Len(s) - 1)) + DigitVal(s[Len(s)])

\* int(s) succeeds: optional surrounding whitespace, optional sign, digits
IntParses(s) ==
    LET u == strip(s)
        d == IF u # <<>> /\ Head(u) \in {"+", "-"} THEN Tail(u) ELSE u
    IN  d # <<>> /\ \A i \in 1..Len(d) : d[i] \in Digits

IntOf(s) ==
    LET u == strip(s)
        neg == u # <<>> /\ Head(u) = "-"
        d == IF u # <<>> /\ Head(u) \in {"+", "-"} THEN Tail(u) ELSE u
    IN  IF neg THEN 0 - DigitsToNat(d) ELSE DigitsToNat(d)

-----------------------------------------------------------------------------
(* dicts *)

EmptyDict == <<>>

IsDict(m) == m # PyNone

\* not metadata
Falsy(m) == m = PyNone \/ DOMAIN m = {}

\* metadata.get(k)
Get(m, k) == IF k \in DOMAIN m THEN m[k] ELSE PyNone

\* metadata.get(k, default)
GetOr(m, k, default) == IF k \in DOMAIN m THEN m[k] ELSE default

\* metadata[k] = v
Put(m, k, v) == [f \in (DOMAIN m) \cup {k} |-> IF f = k THEN v ELSE m[f]]

-----------------------------------------------------------------------------
(* Field names of the metadata schema *)

F_TITLE == "title"                          \* 题名
F_FILING_UNIT == "filing_unit_name"         \* 立档单位名称
F_RESPONSIBLE == "responsible_party"        \* 责任者
F_SECURITY_LEVEL == "security_level"        \* 密级
F_SECURITY_PERIOD == "security_period"      \* 保密期限
F_CATEGORY_NAME == "category_name"          \* 实体分类名称
F_CATEGORY_CODE == "category_code"          \* 实体分类号
F_RETENTION == "retention_period"           \* 保管期限
F_FILE_NUMBER == "file_number"              \* 文件编号
F_FORMATION_TIME == "formation_time"        \* 文件形成时间
F_ARCHIVAL_YEAR == "archival_year"          \* 归档年度
F_OPEN_STATUS == "open_status"              \* 开放状态
F_DEFERRED_REASON == "deferred_reason"      \* 延期开放理由

\* 全宗号, 档案馆代码, 档案馆名称, 外包单位名称
FORCE_NULL_FIELDS == {"fonds_no", "archive_code", "archive_name", "outsourcer_name"}

SchemaFields ==
    FORCE_NULL_FIELDS \cup
    {F_TITLE, F_FILING_UNIT, F_RESPONSIBLE, F_SECURITY_LEVEL, F_SECURITY_PERIOD,
     F_CATEGORY_NAME, F_CATEGORY_CODE, F_RETENTION, F_FILE_NUMBER,
     F_FORMATION_TIME, F_ARCHIVAL_YEAR, F_OPEN_STATUS, F_DEFERRED_REASON}

-----------------------------------------------------------------------------
(* String literals of the code and of the constants module *)

S_null == <<"n", "u", "l", "l">>            \* "null"

S_10y == <<"1", "0", "nian">>               \* 10年
S_30y == <<"3", "0", "nian">>               \* 30年
S_permanent == <<"yong", "jiu">>            \* 永久
S_1y == <<"1", "nian">>                     \* 1年
S_5y == <<"5", "nian">>                     \* 5年

S_party == <<"dang", "qun", "lei">>         \* 党群类
S_general == <<"zong", "he", "lei">>        \* 综合类
S_business == <<"ye", "wu", "lei">>         \* 业务类

S_non_secret == <<"fei", "she", "mi">>      \* 非涉密
S_internal == <<"nei", "bu">>               \* 内部
S_secret == <<"mi2", "mi">>                 \* 秘密
S_confidential == <<"ji2", "mi">>           \* 机密
S_top_secret == <<"jue", "mi">>             \* 绝密

S_open == <<"kai", "fang">>                 \* 开放
S_controlled == <<"kong", "zhi3">>          \* 控制

S_work_secret == <<"gong2", "zuo", "mi2", "mi">>    \* 工作秘密
S_privacy == <<"ge", "ren", "yin2", "si2">>         \* 个人隐私
S_commercial == <<"shang", "ye", "mi2", "mi">>      \* 商业秘密
S_negative == <<"fu", "mian", "xin", "xi">>         \* 负面信息

S_briefing == <<"jian", "bao">>             \* 简报
S_notice == <<"tong", "zhi">>               \* 通知
S_criticism1 == <<"pi", "ping", "tong", "bao">>     \* 批评通报
S_criticism2 == <<"tong", "bao", "pi", "ping">>     \* 通报批评
S_bid == <<"zhong", "biao">>                \* 中标
S_request == <<"qing", "shi">>              \* 请示

\* 2020年起 DQL / ZHL / YWL, 2020年前 001 / 002 / 003
CODE_NEW ==
    (S_party :> <<"D", "Q", "L">>) @@ (S_general :> <<"Z", "H", "L">>)
    @@ (S_business :> <<"Y", "W", "L">>)
CODE_OLD ==
    (S_party :> <<"0", "0", "1">>) @@ (S_general :> <<"0", "0", "2">>)
    @@ (S_business :> <<"0", "0", "3">>)
CODE_SWITCH_YEAR == 2020

\* ordered retention periods; a value that is no key has rank 0
PERIOD_ORDER == (S_10y :> 1) @@ (S_30y :> 2) @@ (S_permanent :> 3)

CONTROLLED_SECURITY_LEVELS == {S_internal, S_secret, S_confidential, S_top_secret}

-----------------------------------------------------------------------------
(* _resolve_code and _validate_classification_code *)

\* _resolve_code matching a key by prefix instead of by equality
resolve_code_Prefix(year, category_name) ==
    LET mapping == IF year >= CODE_SWITCH_YEAR THEN CODE_NEW ELSE CODE_OLD
        hits == {k \in DOMAIN mapping :
                    /\ IsStr(category_name) /\ category_name.v # <<>>
                    /\ \/ /\ Len(category_name.v) <= Len(k)
                          /\ SubSeq(k, 1, Len(category_name.v)) = category_name.v
                       \/ /\ Len(k) <= Len(category_name.v)
                          /\ SubSeq(category_name.v, 1, Len(k)) = k}
    IN  IF hits # {} THEN mapping[CHOOSE k \in hits : TRUE] ELSE <<>>

\* mapping.get(category_name, "")
resolve_code(year, category_name) ==
    LET mapping == IF year >= CODE_SWITCH_YEAR THEN CODE_NEW ELSE CODE_OLD
    IN  IF IsStr(category_name) /\ category_name.v \in DOMAIN mapping
        THEN mapping[category_name.v]
        ELSE <<>>

\* the year of 文件形成时间, or None (0 counts as "no year": `if not year`)
FormedYear(m) ==
    LET formed_time == strip(StrOrEmpty(Get(m, F_FORMATION_TIME)))
        first4 == SubSeq(formed_time, 1, 4)
    IN  IF formed_time # <<>> /\ Len(formed_time) >= 4 /\ IntParses(first4)
        THEN PyInt(IntOf(first4))
        ELSE PyNone

\* the string int() is given in the fallback: str(metadata.get("归档年度", ""))
ArchivalYearStr(m) == str(GetOr(m, F_ARCHIVAL_YEAR, PyStr(<<>>)))

\* the effective year, or None when the function returns early
EffectiveYear(m) ==
    IF Truthy(FormedYear(m)) THEN FormedYear(m)
    ELSE IF IntParses(ArchivalYearStr(m)) THEN PyInt(IntOf(ArchivalYearStr(m)))
    ELSE PyNone

\* _validate_classification_code writing only where no code is present
validate_classification_code_KeepExisting(m) ==
    IF Falsy(m) THEN m
    ELSE IF EffectiveYear(m) = PyNone THEN m
    ELSE LET category_name == GetOr(m, F_CATEGORY_NAME, PyStr(<<>>))
             expected_code == resolve_code(EffectiveYear(m).v, category_name)
         IN  IF expected_code # <<>> /\ ~Truthy(Get(m, F_CATEGORY_CODE))
             THEN Put(m, F_CATEGORY_CODE, PyStr(expected_code))
             ELSE m

validate_classification_code(m) ==
    IF Falsy(m) THEN m
    ELSE IF EffectiveYear(m) = PyNone THEN m
    ELSE LET category_name == GetOr(m, F_CATEGORY_NAME, PyStr(<<>>))
             expected_code == resolve_code(EffectiveYear(m).v, category_name)
         IN  IF expected_code # <<>>
             THEN Put(m, F_CATEGORY_CODE, PyStr(expected_code))
             ELSE m

-----------------------------------------------------------------------------
(* _force_fix_fields *)

VALID_SECURITY_LEVELS ==
    {S_non_secret, S_internal, S_secret, S_confidential, S_top_secret}
VALID_SECRET_PERIODS == {S_1y, S_5y, S_10y}

\* x == "..." between a value and a str literal
IsLit(x, lit) == IsStr(x) /\ x.v = lit

\* x in {set of str literals}
InLits(x, lits) == IsStr(x) /\ x.v \in lits

ForceNull(m) ==
    [f \in DOMAIN m |->
        IF f \in FORCE_NULL_FIELDS /\ Truthy(m[f]) /\ ~IsLit(m[f], S_null)
        THEN PyNone ELSE m[f]]

\* SyncFilingUnit filling 立档单位名称 only where the key is missing
SyncFilingUnit_AbsentOnly(m) ==
    IF F_FILING_UNIT \notin DOMAIN m
    THEN Put(m, F_FILING_UNIT, Get(m, F_RESPONSIBLE))
    ELSE m

\* SyncFilingUnit keeping the two fields equal in both directions
SyncFilingUnit_Bidirectional(m) ==
    IF ~Truthy(Get(m, F_FILING_UNIT))
    THEN Put(m, F_FILING_UNIT, Get(m, F_RESPONSIBLE))
    ELSE IF ~Truthy(Get(m, F_RESPONSIBLE))
    THEN Put(m, F_RESPONSIBLE, Get(m, F_FILING_UNIT))
    ELSE m

SyncFilingUnit(m) ==
    IF ~Truthy(Get(m, F_FILING_UNIT))
    THEN Put(m, F_FILING_UNIT, Get(m, F_RESPONSIBLE))
    ELSE m

\* FixSecurityLevel without the cascade to 保密期限
FixSecurityLevel_NoCascade(m) ==
    LET current_level == Get(m, F_SECURITY_LEVEL)
    IN  IF Truthy(current_level) /\ ~InLits(current_level, VALID_SECURITY_LEVELS)
        THEN Put(m, F_SECURITY_LEVEL, PyNone)
        ELSE m

FixSecurityLevel(m) ==
    LET current_level == Get(m, F_SECURITY_LEVEL)
    IN  IF Truthy(current_level) /\ ~InLits(current_level, VALID_SECURITY_LEVELS)
        THEN Put(Put(m, F_SECURITY_LEVEL, PyNone), F_SECURITY_PERIOD, PyNone)
        ELSE m

FixSecurityPeriod(m) ==
    LET current_period == Get(m, F_SECURITY_PERIOD)
    IN  IF Truthy(current_period) /\ ~InLits(current_period, VALID_SECRET_PERIODS)
        THEN Put(m, F_SECURITY_PERIOD, PyNone)
        ELSE m

\* _force_fix_fields whose guard is `metadata is None` instead of `not metadata`
force_fix_fields_NoneOnly(m) ==
    IF m = PyNone THEN m
    ELSE FixSecurityPeriod(FixSecurityLevel(SyncFilingUnit(ForceNull(m))))

force_fix_fields(m) ==
    IF Falsy(m) THEN m
    ELSE FixSecurityPeriod(FixSecurityLevel(SyncFilingUnit(ForceNull(m))))

-----------------------------------------------------------------------------
(* Keyword tables of the constants module *)

BRIEFING_PARTY_KEYWORDS == {<<"dang", "zhi2", "bu">>, <<"dang", "yuan">>}   \* 党支部, 党员
BRIEFING_BUSINESS_KEYWORDS == {<<"dang2", "an">>, <<"pei", "xun">>}         \* 档案, 培训
TRAINING_KEYWORDS == {<<"pei", "xun">>}                                     \* 培训
TRAINING_MGMT_KEYWORDS == {<<"pei", "xun", "zhi3", "du">>}                  \* 培训制度
PARTY_TRAINING_KEYWORDS == {<<"dang", "yuan">>}                             \* 党员
ADDRESS_CHANGE_KEYWORDS == {<<"di2", "zhi4", "bian", "geng">>}              \* 地址变更
MAINTENANCE_KEYWORDS == {<<"an2", "zhuang">>}                               \* 安装
MAINTENANCE_DOC_TYPES == {<<"han">>, <<"tong", "zhi">>}                     \* 函, 通知
IMPORTANT_NOTICE_KEYWORDS == {<<"zhong2", "yao">>}                          \* 重要
REGULATION_KEYWORDS == {<<"zhi3", "du">>, <<"guan2", "li", "ban2", "fa2">>} \* 制度, 管理办法
INTERNAL_ORG_KEYWORDS == {<<"gong", "si">>}                                 \* 公司
BID_KEYWORDS == {<<"jie", "guo", "gong", "shi">>, <<"tong", "zhi", "han">>} \* 结果公示, 通知函
PARTY_BRANCH_KEYWORDS == {<<"dang", "zhi2", "bu">>}                         \* 党支部
PARTY_BRANCH_ADJUST_KEYWORDS == {<<"geng", "huan">>}                        \* 更换
PARTY_BRANCH_TARGET_KEYWORDS == {<<"shu", "ji">>}                           \* 书记
PARTY_BRANCH_ELECTION_RESULT_KEYWORDS == {<<"xuan", "ju", "jie", "guo">>}   \* 选举结果
BUSINESS_LEGITIMATE_KEYWORDS == {<<"dang2", "an">>, <<"pei", "xun">>}       \* 档案, 培训
BUSINESS_FALSE_POSITIVE_DOC_TYPES == {<<"tong", "zhi">>, <<"han">>}         \* 通知, 函

PRIVACY_KEYWORDS == {<<"gong2", "zi", "biao2">>}                            \* 工资表
COMMERCIAL_KEYWORDS == {<<"bao", "jia", "dan">>}                            \* 报价单
\* 中标结果, 中标公示
COMMERCIAL_EXEMPT_KEYWORDS ==
    {<<"zhong", "biao", "jie", "guo">>, <<"zhong", "biao", "gong", "shi">>}
\* 批评通报, 通报批评, 诫勉约谈
NEGATIVE_TITLE_KEYWORDS ==
    {<<"pi", "ping", "tong", "bao">>, <<"tong", "bao", "pi", "ping">>,
     <<"jie2", "mian2", "yue2", "tan">>}

-----------------------------------------------------------------------------
(* _apply_supplementary_rules, one operator per rule, in execution order *)

\* title = str(metadata.get("题名") or "").strip()
TitleOf(m) == strip(StrOrEmpty(Get(m, F_TITLE)))

\* text = ocr_text or ""
TextOf(raw) == IF Truthy(raw) THEN raw.v ELSE <<>>

\* text = ocr_text, without the default
TextValue_NoDefault(raw) == raw

\* the value of text: ocr_text or ""
TextValue(raw) == IF Truthy(raw) THEN raw ELSE PyStr(<<>>)

\* title + " " + text raises TypeError unless text is a str
ConcatRaises(raw) == ~IsStr(TextValue(raw))

\* content = title + " " + text
ContentOf(m, raw) == TitleOf(m) \o <<" ">> \o TextOf(raw)

\* PERIOD_ORDER.get(current_period, 0)
PeriodRank(x) ==
    IF IsStr(x) /\ x.v \in DOMAIN PERIOD_ORDER THEN PERIOD_ORDER[x.v] ELSE 0

\* file_number and str(file_number).strip() and str(file_number) != "null"
HasNumber(m) ==
    LET file_number == Get(m, F_FILE_NUMBER)
    IN  Truthy(file_number) /\ strip(str(file_number)) # <<>>
        /\ str(file_number) # S_null

\* rule 2 fires: "简报" in title
IsBriefing(title) == Contains(title, S_briefing)

\* BriefingCategory testing the business keywords ahead of the party keywords
BriefingCategory_BusinessFirst(content) ==
    IF AnyIn(BRIEFING_BUSINESS_KEYWORDS, content) THEN S_business
    ELSE IF AnyIn(BRIEFING_PARTY_KEYWORDS, content) THEN S_party
    ELSE S_general

BriefingCategory(content) ==
    IF AnyIn(BRIEFING_PARTY_KEYWORDS, content) THEN S_party
    ELSE IF AnyIn(BRIEFING_BUSINESS_KEYWORDS, content) THEN S_business
    ELSE S_general

\* rule 2: briefing -> 10年, lock; category by content
Rule2(m, title, content) ==
    IF IsBriefing(title)
    THEN validate_classification_code(
            Put(Put(m, F_RETENTION, PyStr(S_10y)),
                F_CATEGORY_NAME, PyStr(BriefingCategory(content))))
    ELSE m

\* IsInternalTraining without the party-training exclusion
IsInternalTraining_NoPartyExclusion(title, content) ==
    /\ AnyIn(TRAINING_KEYWORDS, title)
    /\ ~AnyIn(TRAINING_MGMT_KEYWORDS, title)

IsInternalTraining(title, content) ==
    /\ AnyIn(TRAINING_KEYWORDS, title)
    /\ ~AnyIn(TRAINING_MGMT_KEYWORDS, title)
    /\ ~AnyIn(PARTY_TRAINING_KEYWORDS, content)

\* RaiseTo30 without the PERIOD_ORDER comparison
RaiseTo30_Unconditional(m) == Put(m, F_RETENTION, PyStr(S_30y))

\* the period write shared by rule 1 and rule 7: raise to 30年 when below it
RaiseTo30(m) ==
    IF PeriodRank(GetOr(m, F_RETENTION, PyStr(<<>>))) < PERIOD_ORDER[S_30y]
    THEN Put(m, F_RETENTION, PyStr(S_30y))
    ELSE m

\* rule 1: internal training -> 业务类, period raised to 30年 unless locked
Rule1(m, locked, title, content) ==
    IF IsInternalTraining(title, content)
    THEN LET m1 == Put(m, F_CATEGORY_NAME, PyStr(S_business))
             m2 == IF ~locked THEN RaiseTo30(m1) ELSE m1
         IN  validate_classification_code(m2)
    ELSE m

\* SetPeriodUnlessLocked without the lock check
SetPeriod_IgnoringLock(m, locked, period) == Put(m, F_RETENTION, PyStr(period))

\* the guarded period write of rules 3, 4, 5, 6, 8, 9, 10
SetPeriodUnlessLocked(m, locked, period) ==
    IF ~locked THEN Put(m, F_RETENTION, PyStr(period)) ELSE m

\* rule 3: address change -> 10年
Rule3(m, locked, title, content) ==
    IF AnyIn(ADDRESS_CHANGE_KEYWORDS, content)
    THEN SetPeriodUnlessLocked(m, locked, S_10y)
    ELSE m

\* rule 4: installation / maintenance letters and notices -> 10年
Rule4(m, locked, title, content) ==
    IF AnyIn(MAINTENANCE_KEYWORDS, content) /\ AnyIn(MAINTENANCE_DOC_TYPES, title)
    THEN SetPeriodUnlessLocked(m, locked, S_10y)
    ELSE m

\* rule 5: routine notice without file number -> 10年
Rule5(m, locked, title, content) ==
    IF /\ Contains(title, S_notice)
       /\ ~HasNumber(m)
       /\ ~AnyIn(IMPORTANT_NOTICE_KEYWORDS, content)
    THEN SetPeriodUnlessLocked(m, locked, S_10y)
    ELSE m

\* rule 6 with the category write under the lock check as well
Rule6_AllGuarded(m, locked, title, content) ==
    IF /\ AnyIn(REGULATION_KEYWORDS, title) /\ AnyIn(INTERNAL_ORG_KEYWORDS, content)
       /\ ~locked
    THEN validate_classification_code(
            Put(Put(m, F_CATEGORY_NAME, PyStr(S_general)), F_RETENTION, PyStr(S_30y)))
    ELSE m

\* rule 6: internal regulation -> 综合类, 30年
Rule6(m, locked, title, content) ==
    IF AnyIn(REGULATION_KEYWORDS, title) /\ AnyIn(INTERNAL_ORG_KEYWORDS, content)
    THEN validate_classification_code(
            SetPeriodUnlessLocked(
                Put(m, F_CATEGORY_NAME, PyStr(S_general)), locked, S_30y))
    ELSE m

\* rule 8 raising a lower period only, as rules 1 and 7 do
Rule8_RaiseOnly(m, locked, title, content) ==
    IF AnyIn({S_criticism1, S_criticism2}, title) /\ ~locked
    THEN RaiseTo30(m)
    ELSE m

\* rule 8: criticism notice -> 30年
Rule8(m, locked, title, content) ==
    IF AnyIn({S_criticism1, S_criticism2}, title)
    THEN SetPeriodUnlessLocked(m, locked, S_30y)
    ELSE m

\* rule 9: bid result / bid notice -> 30年
Rule9(m, locked, title, content) ==
    IF Contains(title, S_bid) /\ AnyIn(BID_KEYWORDS, title)
    THEN SetPeriodUnlessLocked(m, locked, S_30y)
    ELSE m

\* IsBranchAdjustRequest without the election-result exclusion
IsBranchAdjustRequest_NoElectionExclusion(content) ==
    /\ AnyIn(PARTY_BRANCH_KEYWORDS, content)
    /\ AnyIn(PARTY_BRANCH_ADJUST_KEYWORDS, content)
    /\ AnyIn(PARTY_BRANCH_TARGET_KEYWORDS, content)
    /\ Contains(content, S_request)

IsBranchAdjustRequest(content) ==
    /\ AnyIn(PARTY_BRANCH_KEYWORDS, content)
    /\ AnyIn(PARTY_BRANCH_ADJUST_KEYWORDS, content)
    /\ AnyIn(PARTY_BRANCH_TARGET_KEYWORDS, content)
    /\ Contains(content, S_request)
    /\ ~AnyIn(PARTY_BRANCH_ELECTION_RESULT_KEYWORDS, content)

\* rule 10: party-branch adjustment request -> 党群类, 30年
Rule10(m, locked, title, content) ==
    IF IsBranchAdjustRequest(content)
    THEN validate_classification_code(
            SetPeriodUnlessLocked(
                Put(m, F_CATEGORY_NAME, PyStr(S_party)), locked, S_30y))
    ELSE m

\* the rule chain without the business-category guard
BusinessGuard_Absent(m, locked, title, content) == m

\* business-category false-positive guard -> 综合类
BusinessGuard(m, locked, title, content) ==
    IF /\ IsLit(Get(m, F_CATEGORY_NAME), S_business)
       /\ ~AnyIn(BUSINESS_LEGITIMATE_KEYWORDS, content)
       /\ AnyIn(BUSINESS_FALSE_POSITIVE_DOC_TYPES, title)
    THEN validate_classification_code(Put(m, F_CATEGORY_NAME, PyStr(S_general)))
    ELSE m

\* rule 7 raising only a period that is exactly 10年
Rule7_FromTenOnly(m, locked, title, content) ==
    IF HasNumber(m) /\ ~locked /\ IsLit(Get(m, F_RETENTION), S_10y)
    THEN Put(m, F_RETENTION, PyStr(S_30y))
    ELSE m

\* rule 7: file number present -> at least 30年, unless locked
Rule7(m, locked, title, content) ==
    IF HasNumber(m) /\ ~locked THEN RaiseTo30(m) ELSE m

-----------------------------------------------------------------------------
(* Regular expressions.  A pattern is a sequence of atoms; an atom is a      *)
(* character class (or its complement) repeated lo..hi times, hi = -1 for    *)
(* no upper limit.  Only spaces stand for \s and ASCII digits for \d.        *)

Rep(cls, lo, hi) == [cls |-> cls, neg |-> FALSE, lo |-> lo, hi |-> hi]
NotRep(cls, lo, hi) == [cls |-> cls, neg |-> TRUE, lo |-> lo, hi |-> hi]
One(cls) == Rep(cls, 1, 1)
Star(cls) == Rep(cls, 0, -1)
Plus(cls) == Rep(cls, 1, -1)
Opt(cls) == Rep(cls, 0, 1)
Lit(s) == [i \in 1..Len(s) |-> One({s[i]})]

InCls(c, a) == (c \in a.cls) # a.neg

\* the numbers of repetitions atom a can take at position p of u
Counts(u, p, a) ==
    LET room == Len(u) - p + 1
        top == IF a.hi < 0 \/ a.hi > room THEN room ELSE a.hi
    IN  {n \in a.lo..top : \A q \in p..(p + n - 1) : InCls(u[q], a)}

\* the positions right after a match of pat[j..] that starts at p
RECURSIVE MatchEnds(_, _, _, _)
MatchEnds(u, p, pat, j) ==
    IF j > Len(pat) THEN {p}
    ELSE UNION {MatchEnds(u, p + n, pat, j + 1) : n \in Counts(u, p, pat[j])}

SetMin(S) == CHOOSE x \in S : \A y \in S : x <= y
SetMax(S) == CHOOSE x \in S : \A y \in S : x >= y

\* re.search(pat, u)
Search(u, pat) == \E i \in 1..(Len(u) + 1) : MatchEnds(u, i, pat, 1) # {}

\* re.sub(pat + '$', '', u): the leftmost match that reaches the end is cut
SubSuffix(u, pat) ==
    LET starts == {i \in 1..(Len(u) + 1) : (Len(u) + 1) \in MatchEnds(u, i, pat, 1)}
    IN  IF starts = {} THEN u ELSE SubSeq(u, 1, SetMin(starts) - 1)

\* re.sub('^' + pat, '', u), for a pattern whose only free choice is its
\* greedy last atom: the longest match at the start is cut
SubPrefix(u, pat) ==
    LET ends == MatchEnds(u, 1, pat, 1)
    IN  IF ends = {} THEN u ELSE SubSeq(u, SetMax(ends), Len(u))

-----------------------------------------------------------------------------
(* _apply_open_status_rules *)

\* 给予.{0,10}处分
NEGATIVE_PATTERNS ==
    {Lit(<<"gei", "yu2">>) \o <<NotRep({}, 0, 10)>> \o Lit(<<"chu", "fen">>)}

\* any(kw in title or kw in text for kw in kws)
AnyInEither(kws, title, text) ==
    \E kw \in kws : Contains(title, kw) \/ Contains(text, kw)

\* Controlled writing the reason only
Controlled_ReasonOnly(m, reason) == Put(m, F_DEFERRED_REASON, PyStr(reason))

Controlled(m, reason) ==
    Put(Put(m, F_OPEN_STATUS, PyStr(S_controlled)), F_DEFERRED_REASON, PyStr(reason))

\* _apply_open_status_rules with the commercial check ahead of the privacy check
apply_open_status_rules_CommercialFirst(m, raw) ==
    IF Falsy(m) THEN m
    ELSE
    LET title == TitleOf(m)
        text == TextOf(raw)
        m0 == Put(Put(m, F_OPEN_STATUS, PyStr(S_open)), F_DEFERRED_REASON, PyNone)
    IN  IF InLits(Get(m0, F_SECURITY_LEVEL), CONTROLLED_SECURITY_LEVELS)
        THEN Controlled(m0, S_work_secret)
        ELSE IF /\ AnyInEither(COMMERCIAL_KEYWORDS, title, text)
                /\ ~AnyIn(COMMERCIAL_EXEMPT_KEYWORDS, title)
        THEN Controlled(m0, S_commercial)
        ELSE IF AnyInEither(PRIVACY_KEYWORDS, title, text)
        THEN Controlled(m0, S_privacy)
        ELSE IF AnyIn(NEGATIVE_TITLE_KEYWORDS, title)
        THEN Controlled(m0, S_negative)
        ELSE IF \E pattern \in NEGATIVE_PATTERNS :
                    Search(title, pattern) \/ Search(text, pattern)
        THEN Controlled(m0, S_negative)
        ELSE m0

\* _apply_open_status_rules without the two default writes
apply_open_status_rules_NoDefaults(m, raw) ==
    IF Falsy(m) THEN m
    ELSE
    LET title == TitleOf(m)
        text == TextOf(raw)
    IN  IF InLits(Get(m, F_SECURITY_LEVEL), CONTROLLED_SECURITY_LEVELS)
        THEN Controlled(m, S_work_secret)
        ELSE IF AnyInEither(PRIVACY_KEYWORDS, title, text)
        THEN Controlled(m, S_privacy)
        ELSE IF /\ AnyInEither(COMMERCIAL_KEYWORDS, title, text)
                /\ ~AnyIn(COMMERCIAL_EXEMPT_KEYWORDS, title)
        THEN Controlled(m, S_commercial)
        ELSE IF AnyIn(NEGATIVE_TITLE_KEYWORDS, title)
        THEN Controlled(m, S_negative)
        ELSE IF \E pattern \in NEGATIVE_PATTERNS :
                    Search(title, pattern) \/ Search(text, pattern)
        THEN Controlled(m, S_negative)
        ELSE m

apply_open_status_rules(m, raw) ==
    IF Falsy(m) THEN m
    ELSE
    LET title == TitleOf(m)
        text == TextOf(raw)
        m0 == Put(Put(m, F_OPEN_STATUS, PyStr(S_open)), F_DEFERRED_REASON, PyNone)
    IN  IF InLits(Get(m0, F_SECURITY_LEVEL), CONTROLLED_SECURITY_LEVELS)
        THEN Controlled(m0, S_work_secret)
        ELSE IF AnyInEither(PRIVACY_KEYWORDS, title, text)
        THEN Controlled(m0, S_privacy)
        ELSE IF /\ AnyInEither(COMMERCIAL_KEYWORDS, title, text)
                /\ ~AnyIn(COMMERCIAL_EXEMPT_KEYWORDS, title)
        THEN Controlled(m0, S_commercial)
        ELSE IF AnyIn(NEGATIVE_TITLE_KEYWORDS, title)
        THEN Controlled(m0, S_negative)
        ELSE IF \E pattern \in NEGATIVE_PATTERNS :
                    Search(title, pattern) \/ Search(text, pattern)
        THEN Controlled(m0, S_negative)
        ELSE m0

-----------------------------------------------------------------------------
(* _clean_title *)

OPEN4 == {"[", "(", "fw(", "cjk["}          \* [ ( （ 【
CLOSE4 == {"]", ")", "fw)", "cjk]"}         \* ] ) ） 】

\* rule 1   \s*[\[\(（【]\d{6,8}[\]\)）】]$
RE_1 == <<Star(WS), One(OPEN4), Rep(Digits, 6, 8), One(CLOSE4)>>

\* \d{4}年\d{1,2}月\d{1,2}日
RE_cn_date ==
    <<Rep(Digits, 4, 4), One({"nian"}), Rep(Digits, 1, 2), One({"yue"}),
      Rep(Digits, 1, 2), One({"ri"})>>

\* rule 2   \s*[\[\(（【]\d{4}年\d{1,2}月\d{1,2}日[\]\)）】]$
RE_2 == <<Star(WS), One(OPEN4)>> \o RE_cn_date \o <<One(CLOSE4)>>

\* rule 3   \s*[\[\(（【]\d{4}年[版号期][\]\)）】]$
RE_3 ==
    <<Star(WS), One(OPEN4), Rep(Digits, 4, 4), One({"nian"}),
      One({"ban", "hao", "qi"}), One(CLOSE4)>>

\* rule 4   ^[\[\(（【]\d{4}[\]\)）】]\s*
RE_4 == <<One(OPEN4), Rep(Digits, 4, 4), One(CLOSE4), Star(WS)>>

\* rule 5   ^[\[\(（【]\d{4}年\d{1,2}月\d{1,2}日[\]\)）】]\s*
RE_5 == <<One(OPEN4)>> \o RE_cn_date \o <<One(CLOSE4), Star(WS)>>

\* rule 6   \s*[\(（][^\)）]{0,30}[\[【]\d{4}[\]】][^\)）]{0,10}[\)）]$
RE_6 ==
    <<Star(WS), One({"(", "fw("}), NotRep({")", "fw)"}, 0, 30), One({"[", "cjk["}),
      Rep(Digits, 4, 4), One({"]", "cjk]"}), NotRep({")", "fw)"}, 0, 10),
      One({")", "fw)"})>>

\* rule 6b  \s+[^\s\[\(]{1,10}[\(\[（【]\d{4}[\)\]）】]\d+号$
RE_6b ==
    <<Plus(WS), NotRep(WS \cup {"[", "("}, 1, 10), One(OPEN4), Rep(Digits, 4, 4),
      One(CLOSE4), Plus(Digits), One({"hao"})>>

\* rule 6c  \s*\[\d{4}\]\d+号$
RE_6c ==
    <<Star(WS), One({"["}), Rep(Digits, 4, 4), One({"]"}), Plus(Digits), One({"hao"})>>

\* rule 7   re.match(r'^(.+?)\s*\[(\1)\]$'): the shortest body b with
\* title = b, spaces, "[", b, "]"; the title becomes b
Rule7Bodies(t) ==
    {n \in 1..Len(t) :
        LET k == Len(t) - 2 * n - 2
        IN  /\ k >= 0
            /\ \A q \in (n + 1)..(n + k) : t[q] \in WS
            /\ t[n + k + 1] = "["
            /\ SubSeq(t, n + k + 2, 2 * n + k + 1) = SubSeq(t, 1, n)
            /\ t[Len(t)] = "]"}

CleanRule7(t) ==
    IF Rule7Bodies(t) = {} THEN t ELSE SubSeq(t, 1, SetMin(Rule7Bodies(t)))

\* rule 8a  \s*[—－]{1,2}[^—]{2,30}简报$
RE_8a ==
    <<Star(WS), Rep({"em-", "fw-"}, 1, 2), NotRep({"em-"}, 2, 30)>> \o Lit(S_briefing)

\* 第\d+期
RE_issue == <<One({"di"}), Plus(Digits), One({"qi"})>>

\* rule 8b  \s*[-－—]\s*第\d+期$
RE_8b == <<Star(WS), One({"-", "fw-", "em-"}), Star(WS)>> \o RE_issue

\* rule 8c  \s*[（(【]\s*第\d+期\s*[)）】]\s*$
RE_8c ==
    <<Star(WS), One({"fw(", "(", "cjk["}), Star(WS)>> \o RE_issue
    \o <<Star(WS), One({")", "fw)", "cjk]"}), Star(WS)>>

\* rule 8d  \s*第\d+期$
RE_8d == <<Star(WS)>> \o RE_issue

\* rule 8: only when the title (after rule 7) contains 简报
CleanRule8(t) ==
    IF Contains(t, S_briefing)
    THEN SubSuffix(SubSuffix(SubSuffix(SubSuffix(t, RE_8a), RE_8b), RE_8c), RE_8d)
    ELSE t

\* rule 9   ^第?\d{1,3}号\s+
RE_9 == <<Opt({"di"}), Rep(Digits, 1, 3), One({"hao"}), Plus(WS)>>

S_issuing == <<"guan", "yu", "yin", "fa", "lbk">>   \* 关于印发《

\* rule 10  ^\[([^\]]+)\](关于印发《\1》.*) -> \2
CleanRule10(t) ==
    LET closes == {e \in 1..Len(t) : t[e] = "]"}
        e == SetMin(closes)
        x == SubSeq(t, 2, e - 1)
        want == S_issuing \o x \o <<"rbk">>
    IN  IF /\ t # <<>> /\ t[1] = "[" /\ closes # {}
           /\ x # <<>>
           /\ e + Len(want) <= Len(t)
           /\ SubSeq(t, e + 1, e + Len(want)) = want
        THEN SubSeq(t, e + 1, Len(t))
        ELSE t

\* the twelve steps in the order of the code, then strip()
CleanTitleStr(original) ==
    LET t1 == SubSuffix(original, RE_1)
        t2 == SubSuffix(t1, RE_2)
        t3 == SubSuffix(t2, RE_3)
        t4 == SubPrefix(t3, RE_4)
        t5 == SubPrefix(t4, RE_5)
        t6 == SubSuffix(t5, RE_6)
        t6b == SubSuffix(t6, RE_6b)
        t6c == SubSuffix(t6b, RE_6c)
        t7 == CleanRule7(t6c)
        t8 == CleanRule8(t7)
        t9 == SubPrefix(t8, RE_9)
        t10 == CleanRule10(t9)
    IN  strip(t10)

clean_title(m) ==
    IF Falsy(m) THEN m
    ELSE LET original == TitleOf(m)
         IN  IF original = <<>> THEN m
             ELSE IF CleanTitleStr(original) # original
             THEN Put(m, F_TITLE, PyStr(CleanTitleStr(original)))
             ELSE m

-----------------------------------------------------------------------------
(* Input records and raw texts *)

MaxTitlePhrases == 2    \* phrases concatenated into one title
MaxTextPhrases == 2     \* phrases concatenated into one raw text
MaxSuffixes == 2        \* annotations stacked at the end of one title

\* the concatenation of the phrases list[i], i in I, in index order
RECURSIVE JoinPhrases(_, _)
JoinPhrases(list, I) ==
    IF I = {} THEN <<>>
    ELSE JoinPhrases(list, I \ {SetMax(I)}) \o list[SetMax(I)]

\* every concatenation of at most n phrases of list, in index order
PhraseTexts(list, n) ==
    {JoinPhrases(list, I) : I \in {J \in SUBSET (1..Len(list)) : Cardinality(J) <= n}}

S_org == <<"gong", "si">>                                   \* 公司
S_20200315 == <<"2", "0", "2", "0", "0", "3", "1", "5">>
S_20190315 == <<"2", "0", "1", "9", "0", "3", "1", "5">>
S_doc_number == <<"x", "fa", "[", "2", "0", "2", "0", "]", "1", "hao">>   \* x发[2020]1号

\* a record as the extractor typically returns it: every schema field present
BaseRecord ==
    [f \in SchemaFields |->
        CASE f = F_TITLE -> PyStr(<<"x">>)
          [] f = F_RESPONSIBLE -> PyStr(S_org)
          [] f = F_CATEGORY_NAME -> PyStr(S_general)
          [] f = F_FORMATION_TIME -> PyStr(S_20200315)
          [] f = F_ARCHIVAL_YEAR -> PyInt(2020)
          [] OTHER -> PyNone]

\* BaseRecord with the fields of the record r replaced
With(base, r) == [f \in (DOMAIN base) \cup (DOMAIN r) |-> IF f \in DOMAIN r THEN r[f] ELSE base[f]]

-----------------------------------------------------------------------------
(* apply_all: one step per stage; the rule chain one step per rule *)

Step(here, next, result) ==
    /\ pc = here
    /\ metadata' = result
    /\ pc' = next
    /\ UNCHANGED <<ocr_text, period_locked, input, other, exporter, batch>>

ForceFixFields == Step("force_fix", "rule2", force_fix_fields(metadata))

\* entry of _apply_supplementary_rules and rule 2, which sets the lock; an
\* exception raised while content is built leaves apply_all ("error")
SuppRule2 ==
    /\ pc = "rule2"
    /\ IF Falsy(metadata)
       THEN /\ pc' = "open_status"
            /\ UNCHANGED <<metadata, period_locked>>
       ELSE IF ConcatRaises(ocr_text)
       THEN /\ pc' = "error"
            /\ UNCHANGED <<metadata, period_locked>>
       ELSE /\ metadata' = Rule2(metadata, TitleOf(metadata), ContentOf(metadata, ocr_text))
            /\ period_locked' = IsBriefing(TitleOf(metadata))
            /\ pc' = "rule1"
    /\ UNCHANGED <<ocr_text, input, other, exporter, batch>>

SuppRule1 ==
    Step("rule1", "rule3",
         Rule1(metadata, period_locked, TitleOf(metadata), ContentOf(metadata, ocr_text)))
SuppRule3 ==
    Step("rule3", "rule4",
         Rule3(metadata, period_locked, TitleOf(metadata), ContentOf(metadata, ocr_text)))
SuppRule4 ==
    Step("rule4", "rule5",
         Rule4(metadata, period_locked, TitleOf(metadata), ContentOf(metadata, ocr_text)))
SuppRule5 ==
    Step("rule5", "rule6",
         Rule5(metadata, period_locked, TitleOf(metadata), ContentOf(metadata, ocr_text)))
SuppRule6 ==
    Step("rule6", "rule8",
         Rule6(metadata, period_locked, TitleOf(metadata), ContentOf(metadata, ocr_text)))
SuppRule8 ==
    Step("rule8", "rule9",
         Rule8(metadata, period_locked, TitleOf(metadata), ContentOf(metadata, ocr_text)))
SuppRule9 ==
    Step("rule9", "rule10",
         Rule9(metadata, period_locked, TitleOf(metadata), ContentOf(metadata, ocr_text)))
SuppRule10 ==
    Step("rule10", "guard",
         Rule10(metadata, period_locked, TitleOf(metadata), ContentOf(metadata, ocr_text)))
SuppBusinessGuard ==
    Step("guard", "rule7",
         BusinessGuard(metadata, period_locked, TitleOf(metadata), ContentOf(metadata, ocr_text)))
SuppRule7 ==
    Step("rule7", "open_status",
         Rule7(metadata, period_locked, TitleOf(metadata), ContentOf(metadata, ocr_text)))

ApplyOpenStatusRules ==
    Step("open_status", "validate", apply_open_status_rules(metadata, ocr_text))

ValidateClassificationCode ==
    Step("validate", "clean_title", validate_classification_code(metadata))

CleanTitle == Step("clean_title", "done", clean_title(metadata))

Next ==
    \/ ForceFixFields
    \/ SuppRule2
    \/ SuppRule1
    \/ SuppRule3
    \/ SuppRule4
    \/ SuppRule5
    \/ SuppRule6
    \/ SuppRule8
    \/ SuppRule9
    \/ SuppRule10
    \/ SuppBusinessGuard
    \/ SuppRule7
    \/ ApplyOpenStatusRules
    \/ ValidateClassificationCode
    \/ CleanTitle

\* no second invocation
NoCall == [pc |-> "none"]

\* no export and no batch is running
NoExport == [pc |-> "none"]
NoBatch == [pc |-> "none"]

\* the state apply_all starts in, for a record m and a raw text raw, with no
\* other invocation running
Start(m, raw) ==
    /\ metadata = m
    /\ input = m
    /\ ocr_text = raw
    /\ pc = "force_fix"
    /\ period_locked = FALSE
    /\ other = NoCall
    /\ exporter = NoExport
    /\ batch = NoBatch

\* the positions of apply_all from which a stage or a rule runs next
RunningPositions ==
    {"force_fix", "rule2", "rule1", "rule3", "rule4", "rule5", "rule6", "rule8",
     "rule9", "rule10", "guard", "rule7", "open_status", "validate", "clean_title"}

\* an invocation as a value: the frame of one call of apply_all
StartCall(m, raw) ==
    [metadata |-> m, input |-> m, ocr_text |-> raw, pc |-> "force_fix",
     period_locked |-> FALSE]

\* the flag the rules of an invocation read: period_locked is a local variable
\* of its own call of _apply_supplementary_rules
LockRead_Shared(own, others) == own \/ others

LockRead(own, others) == own

\* one stage or rule of the invocation c; lock is the flag its rules read
Advance(c, lock) ==
    LET m == c.metadata
        t == TitleOf(m)
        ct == ContentOf(m, c.ocr_text)
        to(next, result) == [c EXCEPT !.metadata = result, !.pc = next]
    IN  CASE c.pc = "force_fix" -> to("rule2", force_fix_fields(m))
          [] c.pc = "rule2" ->
                IF Falsy(m) THEN [c EXCEPT !.pc = "open_status"]
                ELSE IF ConcatRaises(c.ocr_text) THEN [c EXCEPT !.pc = "error"]
                ELSE [c EXCEPT !.metadata = Rule2(m, t, ct),
                               !.period_locked = IsBriefing(t),
                               !.pc = "rule1"]
          [] c.pc = "rule1" -> to("rule3", Rule1(m, lock, t, ct))
          [] c.pc = "rule3" -> to("rule4", Rule3(m, lock, t, ct))
          [] c.pc = "rule4" -> to("rule5", Rule4(m, lock, t, ct))
          [] c.pc = "rule5" -> to("rule6", Rule5(m, lock, t, ct))
          [] c.pc = "rule6" -> to("rule8", Rule6(m, lock, t, ct))
          [] c.pc = "rule8" -> to("rule9", Rule8(m, lock, t, ct))
          [] c.pc = "rule9" -> to("rule10", Rule9(m, lock, t, ct))
          [] c.pc = "rule10" -> to("guard", Rule10(m, lock, t, ct))
          [] c.pc = "guard" -> to("rule7", BusinessGuard(m, lock, t, ct))
          [] c.pc = "rule7" -> to("open_status", Rule7(m, lock, t, ct))
          [] c.pc = "open_status" ->
                to("validate", apply_open_status_rules(m, c.ocr_text))
          [] c.pc = "validate" -> to("clean_title", validate_classification_code(m))
          [] c.pc = "clean_title" -> to("done", clean_title(m))

\* a step of the second invocation, interleaved with the steps of the first
OtherStep ==
    /\ other.pc \in RunningPositions
    /\ other' = Advance(other, LockRead(other.period_locked, period_locked))
    /\ UNCHANGED <<metadata, ocr_text, pc, period_locked, input, exporter, batch>>

\* two invocations of apply_all with their steps interleaved in any order
NextPair == Next \/ OtherStep

\* apply_all run alone, from the frame c to its return
RECURSIVE Run(_)
Run(c) == IF c.pc \in RunningPositions THEN Run(Advance(c, c.period_locked)) ELSE c

\* apply_all(metadata, ocr_text), run alone
apply_all(m, raw) == Run(StartCall(m, raw)).metadata

-----------------------------------------------------------------------------
(* Specification Spec: the rule chain.  Titles and raw texts are built from  *)
(* phrases that trigger the rules; the fields the rules read vary.           *)

\* 简报, 培训, 制度, 通知, 批评通报, 中标结果公示
RuleTitlePhrases ==
    <<S_briefing, <<"pei", "xun">>, <<"zhi3", "du">>, S_notice, S_criticism1,
      <<"zhong", "biao", "jie", "guo", "gong", "shi">>>>

\* 党支部更换书记的请示, 选举结果, 党员, 档案, 地址变更, 安装, 公司
RuleTextPhrases ==
    <<<<"dang", "zhi2", "bu", "geng", "huan", "shu", "ji", "de", "qing", "shi">>,
      <<"xuan", "ju", "jie", "guo">>, <<"dang", "yuan">>, <<"dang2", "an">>,
      <<"di2", "zhi4", "bian", "geng">>, <<"an2", "zhuang">>, <<"gong", "si">>>>

RuleTitles == PhraseTexts(RuleTitlePhrases, MaxTitlePhrases)
RuleTexts == PhraseTexts(RuleTextPhrases, MaxTextPhrases)

RetentionInputs == {PyNone, PyStr(S_10y), PyStr(S_30y), PyStr(S_permanent)}

RuleRecords ==
    {With(BaseRecord,
          [title |-> PyStr(t), retention_period |-> p, file_number |-> n,
           category_name |-> PyStr(S_business), formation_time |-> PyStr(y),
           category_code |-> PyStr(<<"0", "0", "3">>)]) :
        t \in RuleTitles, p \in RetentionInputs,
        n \in {PyNone, PyStr(S_doc_number)}, y \in {S_20200315, S_20190315}}

Init == \E m \in RuleRecords, raw \in {PyStr(x) : x \in RuleTexts} : Start(m, raw)

Spec == Init /\ [][Next]_vars

-----------------------------------------------------------------------------
(* Properties of the rule chain, checked under Spec *)

\* rule 2 fired in this invocation (no stage before the chain touches 题名)
BriefingFired == ~Falsy(input) /\ IsBriefing(TitleOf(input))

AfterRule2 == pc \notin {"force_fix", "rule2"}

\* C2: once the briefing rule has fired, the lock is set and 保管期限 is 10年
\* after every later rule, at the end of the chain and at the end of apply_all.
C2_LockedPeriodStays10 ==
    (BriefingFired /\ AfterRule2) =>
        (period_locked /\ Get(metadata, F_RETENTION) = PyStr(S_10y))

\* a briefing that also triggers rule 8 (批评通报) and rule 7 (file number),
\* supplied as 永久, ends as 10年
C2_Witness ==
    /\ pc = "done"
    /\ BriefingFired
    /\ Contains(TitleOf(input), S_criticism1)
    /\ HasNumber(input)
    /\ Get(input, F_RETENTION) = PyStr(S_permanent)
    /\ Get(metadata, F_RETENTION) = PyStr(S_10y)

\* a step of rule 1 or rule 7 keeps or raises the rank of 保管期限
NoDowngradeStep ==
    pc \in {"rule1", "rule7"} =>
        LET before == Get(metadata, F_RETENTION)
            after == Get(metadata', F_RETENTION)
        IN  /\ PeriodRank(after) >= PeriodRank(before)
            /\ (after # before =>
                    (PeriodRank(before) < PERIOD_ORDER[S_30y] /\ after = PyStr(S_30y)))

\* C3: the training rule (rule 1) and the file-number rule (rule 7) never lower
\* 保管期限 in PERIOD_ORDER; the only write is from a value below 30年 to 30年.
C3_NoDowngrade == [][NoDowngradeStep]_vars

\* rule 1 has just raised a 10年 record to 30年
C3_Witness ==
    /\ pc = "rule3"
    /\ IsInternalTraining(TitleOf(metadata), ContentOf(metadata, ocr_text))
    /\ ~period_locked
    /\ Get(input, F_RETENTION) = PyStr(S_10y)
    /\ Get(metadata, F_RETENTION) = PyStr(S_30y)

-----------------------------------------------------------------------------
(* Specification SpecTitle: the title normalizer.  A title is a prefix, a    *)
(* body and up to MaxSuffixes annotations stacked at its end.                *)

S_body_D ==     \* 关于印发《考勤管理办法》的通知
    <<"guan", "yu", "yin", "fa", "lbk", "kao", "qin", "guan2", "li", "ban2", "fa2",
      "rbk", "de", "tong", "zhi">>
S_body_briefing == <<"x", "jian", "bao">>                   \* x简报
S_prefix_D == <<"[", "2", "0", "2", "0", "]", "1", "hao", " ">>   \* [2020]1号 + space

TitleBodies == {S_body_D, S_body_briefing}

\* "", [2020], [2020]1号 , 1号 , [2024年11月22日], [考勤管理办法]
TitlePrefixes ==
    {<<>>, <<"[", "2", "0", "2", "0", "]">>, S_prefix_D, <<"1", "hao", " ">>,
     <<"[", "2", "0", "2", "4", "nian", "1", "1", "yue", "2", "2", "ri", "]">>,
     <<"[", "kao", "qin", "guan2", "li", "ban2", "fa2", "]">>}

\* the annotations that can trail the body b
TitleSuffixes(b) ==
    << <<"[", "2", "0", "1", "9", "1", "1", "0", "6", "]">>,                \* [20191106]
       <<"[", "2", "0", "1", "9", "nian", "9", "yue", "3", "ri", "]">>,     \* [2019年9月3日]
       <<"[", "2", "0", "1", "9", "nian", "ban", "]">>,                     \* [2019年版]
       <<"(", "x", "fa", "[", "2", "0", "2", "0", "]", "2", "hao", ")">>,   \* (x发[2020]2号)
       <<" ", "x", "fa", "(", "2", "0", "1", "9", ")", "2", "3", "hao">>,   \*  x发(2019)23号
       <<"[", "2", "0", "1", "9", "]", "1", "hao">>,                        \* [2019]1号
       <<"[">> \o b \o <<"]">>,                                             \* [body]
       <<"em-", "em-", "x", "x", "jian", "bao">>,                           \* ——xx简报
       <<"em-", " ", "di", "3", "qi">>,                                     \* — 第3期
       <<"fw(", "di", "3", "qi", "fw)">>,                                   \* （第3期）
       <<"di", "3", "qi">> >>                                               \* 第3期

\* list[stack[1]] \o ... \o list[stack[n]]
RECURSIVE JoinStack(_, _)
JoinStack(list, stack) ==
    IF stack = <<>> THEN <<>>
    ELSE list[Head(stack)] \o JoinStack(list, Tail(stack))

SuffixStacks(b) ==
    UNION {[1..n -> 1..Len(TitleSuffixes(b))] : n \in 0..MaxSuffixes}

TitleInputs ==
    UNION {{pre \o b \o JoinStack(TitleSuffixes(b), st) :
                pre \in TitlePrefixes, st \in SuffixStacks(b)} : b \in TitleBodies}
    \cup {pre \o b \o <<"[">> \o b \o <<"]">> : pre \in TitlePrefixes, b \in TitleBodies}

InitTitle ==
    \E t \in TitleInputs : Start(With(BaseRecord, [title |-> PyStr(t)]), PyStr(<<>>))

SpecTitle == InitTitle /\ [][Next]_vars

\* C1: title normalization is idempotent: _clean_title applied to the record
\* apply_all returns changes nothing further.
C1_CleanTitleIdempotent == pc = "done" => clean_title(metadata) = metadata

\* the title of Scenario D for the body b: [2020]1号 b[b]
ScenarioD(b) == S_prefix_D \o b \o <<"[">> \o b \o <<"]">>

\* C10: one run of _clean_title turns "[2020]1号 b[b]" into the body b alone.
C10_ScenarioD ==
    \A b \in TitleBodies :
        (pc = "done" /\ Get(input, F_TITLE) = PyStr(ScenarioD(b)))
            => Get(metadata, F_TITLE) = PyStr(b)

-----------------------------------------------------------------------------
(* Specification SpecFix: the field sanitizer.  The forced-null fields, the  *)
(* security fields and the filing unit take values of every type.            *)

\* None, "", "null", 0, a string, a number
ForcedInputs == {PyNone, PyStr(<<>>), PyStr(S_null), PyInt(0), PyStr(<<"x">>), PyInt(5)}

\* the record m without the key k
Without(m, k) == [f \in (DOMAIN m) \ {k} |-> m[f]]

ForcedRecords ==
    {With(BaseRecord,
          [fonds_no |-> a, archive_code |-> b, archive_name |-> c, outsourcer_name |-> c]) :
        a \in ForcedInputs, b \in ForcedInputs, c \in {PyNone, PyStr(<<"x">>)}}
    \cup {Without(BaseRecord, k) : k \in FORCE_NULL_FIELDS \cup {F_FILING_UNIT, F_SECURITY_LEVEL}}

SecurityLevelInputs ==
    {PyNone, PyStr(S_non_secret), PyStr(S_internal), PyStr(S_top_secret),
     PyStr(<<"x">>), PyStr(<<>>), PyInt(0), PyInt(3)}
SecurityPeriodInputs ==
    {PyNone, PyStr(S_1y), PyStr(S_10y), PyStr(S_30y), PyStr(<<>>), PyInt(0), PyInt(7)}

SecurityRecords ==
    {With(BaseRecord,
          [security_level |-> l, security_period |-> p, filing_unit_name |-> u,
           responsible_party |-> r]) :
        l \in SecurityLevelInputs, p \in SecurityPeriodInputs,
        u \in {PyNone, PyStr(<<>>), PyStr(<<"x">>), PyInt(3)},
        r \in {PyNone, PyStr(S_org)}}

\* records whose other fields hold numbers, blanks and junk; 简报 as a title
\* makes the rules run on them
MalformedRecords ==
    {With(BaseRecord,
          [title |-> t, retention_period |-> p, file_number |-> n,
           formation_time |-> ft, archival_year |-> ay, category_name |-> c]) :
        t \in {PyInt(5), PyNone, PyStr(S_briefing)},
        p \in {PyInt(10), PyStr(<<"x">>)},
        n \in {PyInt(7), PyStr(<<" ">>)},
        ft \in {PyInt(2020), PyStr(<<"a", "b", "c", "d">>)},
        ay \in {PyStr(<<"x">>), PyNone},
        c \in {PyInt(1), PyNone}}

\* records holding a few fields only, one of them (页数) outside the fields
\* the rules know
F_PAGES == "page_count"

SparseRecords ==
    LET few(t, l) ==
            (F_TITLE :> PyStr(t)) @@ (F_SECURITY_LEVEL :> l) @@ (F_PAGES :> PyInt(3))
        more(t, l) ==
            few(t, l) @@ (F_FORMATION_TIME :> PyStr(S_20200315))
                      @@ (F_FILE_NUMBER :> PyStr(S_doc_number))
                      @@ (F_RESPONSIBLE :> PyStr(S_org))
    IN  UNION {{few(t, l), more(t, l)} :
            t \in {S_briefing, S_criticism1, <<"x">>},
            l \in {PyStr(<<"x">>), PyStr(S_internal)}}

\* raw texts: "", None, and numbers, which are no text at all
RawInputs == {PyStr(<<>>), PyNone, PyInt(0), PyInt(5)}

InitFix ==
    \E m \in ForcedRecords \cup SecurityRecords \cup MalformedRecords
              \cup SparseRecords \cup {EmptyDict, PyNone},
       raw \in RawInputs : Start(m, raw)

SpecFix == InitFix /\ [][Next]_vars

\* _force_fix_fields found a 密级 it does not accept: a non-empty value outside
\* VALID_SECURITY_LEVELS
LevelRejected(m) ==
    /\ ~Falsy(m)
    /\ Truthy(Get(m, F_SECURITY_LEVEL))
    /\ ~InLits(Get(m, F_SECURITY_LEVEL), VALID_SECURITY_LEVELS)

CascadeStep ==
    pc = "force_fix" =>
        /\ LevelRejected(metadata) =>
              /\ Get(metadata', F_SECURITY_LEVEL) = PyNone
              /\ Get(metadata', F_SECURITY_PERIOD) = PyNone
        /\ (~Falsy(metadata) /\ Get(metadata, F_SECURITY_LEVEL) # PyNone
              /\ Get(metadata', F_SECURITY_LEVEL) = PyNone)
              => Get(metadata', F_SECURITY_PERIOD) = PyNone

\* C6: a call of _force_fix_fields that finds an invalid 密级 nulls 密级 and
\* 保密期限 together; no call nulls 密级 and leaves 保密期限 set.
C6_CascadingInvalidation == [][CascadeStep]_vars

\* the sanitizer has just nulled an invalid 密级 whose 保密期限 was valid
C6_Witness ==
    /\ pc = "rule2"
    /\ LevelRejected(input)
    /\ InLits(Get(input, F_SECURITY_PERIOD), VALID_SECRET_PERIODS)
    /\ Get(metadata, F_SECURITY_LEVEL) = PyNone
    /\ Get(metadata, F_SECURITY_PERIOD) = PyNone

\* C7: at the end of apply_all every forced-null field is null.
C7_ForcedFieldsNull ==
    (pc = "done" /\ ~Falsy(metadata)) =>
        \A f \in FORCE_NULL_FIELDS : Get(metadata, f) = PyNone

-----------------------------------------------------------------------------
(* Specification SpecOpen: the disclosure classifier.  The security level    *)
(* and the disclosure keywords of title and raw text vary.                   *)

\* 工资表, 报价单, 中标结果, 批评通报, 给予处分
OpenTitlePhrases ==
    <<<<"gong2", "zi", "biao2">>, <<"bao", "jia", "dan">>,
      <<"zhong", "biao", "jie", "guo">>, S_criticism1,
      <<"gei", "yu2", "chu", "fen">>>>

\* 工资表, 报价单, 给予x处分, 通报批评
OpenTextPhrases ==
    <<<<"gong2", "zi", "biao2">>, <<"bao", "jia", "dan">>,
      <<"gei", "yu2", "x", "chu", "fen">>, S_criticism2>>

OpenRecords ==
    {With(BaseRecord,
          [title |-> PyStr(t), security_level |-> l, open_status |-> o,
           deferred_reason |-> r]) :
        t \in PhraseTexts(OpenTitlePhrases, MaxTitlePhrases),
        l \in {PyNone, PyStr(S_non_secret), PyStr(S_internal), PyStr(<<"x">>)},
        o \in {PyNone, PyStr(S_controlled), PyStr(<<"x">>)},
        r \in {PyNone, PyStr(S_work_secret)}}

InitOpen ==
    \E m \in OpenRecords,
       raw \in {PyStr(x) : x \in PhraseTexts(OpenTextPhrases, MaxTextPhrases)} :
        Start(m, raw)

SpecOpen == InitOpen /\ [][Next]_vars

\* the five disclosure conditions, on the record the classifier reads
CondSecurity(m) == InLits(Get(m, F_SECURITY_LEVEL), CONTROLLED_SECURITY_LEVELS)
CondPrivacy(m, raw) == AnyInEither(PRIVACY_KEYWORDS, TitleOf(m), TextOf(raw))
CondCommercial(m, raw) ==
    /\ AnyInEither(COMMERCIAL_KEYWORDS, TitleOf(m), TextOf(raw))
    /\ ~AnyIn(COMMERCIAL_EXEMPT_KEYWORDS, TitleOf(m))
CondNegativeTitle(m) == AnyIn(NEGATIVE_TITLE_KEYWORDS, TitleOf(m))
CondNegativePattern(m, raw) ==
    \E pattern \in NEGATIVE_PATTERNS :
        Search(TitleOf(m), pattern) \/ Search(TextOf(raw), pattern)

\* the classifier has just run (it changes neither 题名 nor 密级)
JustClassified == pc = "validate" /\ ~Falsy(metadata)

ReasonIs(reason) == Get(metadata, F_DEFERRED_REASON) = PyStr(reason)

\* C4: with several disclosure conditions holding at once the reason is that of
\* the first in the order security level > privacy > commercial > negative
\* title keyword > negative pattern.
C4_FirstMatchWins ==
    JustClassified =>
        /\ CondSecurity(metadata) => ReasonIs(S_work_secret)
        /\ (~CondSecurity(metadata) /\ CondPrivacy(metadata, ocr_text))
              => ReasonIs(S_privacy)
        /\ (~CondSecurity(metadata) /\ ~CondPrivacy(metadata, ocr_text)
              /\ CondCommercial(metadata, ocr_text))
              => ReasonIs(S_commercial)
        /\ (~CondSecurity(metadata) /\ ~CondPrivacy(metadata, ocr_text)
              /\ ~CondCommercial(metadata, ocr_text)
              /\ (CondNegativeTitle(metadata) \/ CondNegativePattern(metadata, ocr_text)))
              => ReasonIs(S_negative)

\* privacy and commercial keywords both present, no controlled level: 个人隐私
C4_Witness ==
    /\ JustClassified
    /\ ~CondSecurity(metadata)
    /\ CondPrivacy(metadata, ocr_text)
    /\ CondCommercial(metadata, ocr_text)
    /\ CondNegativeTitle(metadata)
    /\ ReasonIs(S_privacy)

REASONS == {S_work_secret, S_privacy, S_commercial, S_negative}

\* C5: once the classifier has run, 开放状态 is 开放 or 控制, and 延期开放理由
\* is non-null exactly when it is 控制, and then one of the four reasons.
C5_StatusAndReason ==
    (pc \in {"validate", "clean_title", "done"} /\ ~Falsy(metadata)) =>
        LET status == Get(metadata, F_OPEN_STATUS)
            reason == Get(metadata, F_DEFERRED_REASON)
        IN  /\ InLits(status, {S_open, S_controlled})
            /\ (reason # PyNone) <=> IsLit(status, S_controlled)
            /\ (reason # PyNone) => InLits(reason, REASONS)

\* a record the extractor marked with a reason and no valid status ends as
\* 控制 with 负面信息
C5_Witness ==
    /\ pc = "done"
    /\ Get(input, F_OPEN_STATUS) = PyStr(<<"x">>)
    /\ Get(input, F_DEFERRED_REASON) = PyStr(S_work_secret)
    /\ IsLit(Get(metadata, F_OPEN_STATUS), S_controlled)
    /\ ReasonIs(S_negative)

-----------------------------------------------------------------------------
(* Specification SpecCode: the code resolver.  Category names, codes and    *)
(* year sources vary; some titles and texts make a rule rewrite the category *)

S_YWL == <<"Y", "W", "L">>

\* 业务管理类, 业务, 业务类x: near a key, none a key
NearKeyNames ==
    {<<"ye", "wu", "guan2", "li", "lei">>, <<"ye", "wu">>, <<"ye", "wu", "lei", "x">>}

CategoryInputs ==
    {PyStr(S_party), PyStr(S_general), PyStr(S_business), PyNone, PyStr(<<>>), PyInt(0)}
    \cup {PyStr(n) : n \in NearKeyNames}

\* None, 20200315, 20190315, 2020, 202, 00001231, x0200315, the number 20210101
FormationTimeInputs ==
    {PyNone, PyStr(S_20200315), PyStr(S_20190315), PyStr(<<"2", "0", "2", "0">>),
     PyStr(<<"2", "0", "2">>), PyStr(<<"0", "0", "0", "0", "1", "2", "3", "1">>),
     PyStr(<<"x", "0", "2", "0", "0", "3", "1", "5">>), PyInt(20210101)}

ArchivalYearInputs == {PyNone, PyInt(2020), PyStr(<<"2", "0", "1", "9">>), PyStr(<<"x">>)}

\* (title, raw text): nothing fires; briefing of party content; training;
\* internal regulation; party-branch adjustment request; a notice, which the
\* business guard moves out of 业务类
CodeTitleTexts ==
    {<<(<<"x">>), <<>>>>,
     <<S_briefing, <<"dang", "yuan">>>>,
     <<(<<"pei", "xun">>), <<>>>>,
     <<(<<"zhi3", "du">>), S_org>>,
     <<(<<"x">>), RuleTextPhrases[1]>>,
     <<S_notice, <<>>>>}

CodeRecords ==
    {With(BaseRecord,
          [title |-> PyStr(tt[1]), category_name |-> c, category_code |-> k,
           formation_time |-> ft, archival_year |-> ay]) :
        tt \in CodeTitleTexts, c \in CategoryInputs,
        k \in {PyNone, PyStr(S_YWL), PyStr(<<"x">>)},
        ft \in FormationTimeInputs, ay \in ArchivalYearInputs}

InitCode ==
    \E tt \in CodeTitleTexts :
        \E m \in {r \in CodeRecords : r[F_TITLE] = PyStr(tt[1])} :
            Start(m, PyStr(tt[2]))

SpecCode == InitCode /\ [][Next]_vars

CodeKeys == (DOMAIN CODE_NEW) \cup (DOMAIN CODE_OLD)

\* the final pass of _validate_classification_code, for a record with a year
ExactMatchStep ==
    (pc = "validate" /\ ~Falsy(metadata) /\ EffectiveYear(metadata) # PyNone) =>
        LET name == GetOr(metadata, F_CATEGORY_NAME, PyStr(<<>>))
            code == resolve_code(EffectiveYear(metadata).v, name)
        IN  /\ code # <<>> =>
                  \E k \in CodeKeys :
                      name = PyStr(k) /\ code \in {CODE_NEW[k], CODE_OLD[k]}
            /\ ~InLits(name, CodeKeys) =>
                  /\ code = <<>>
                  /\ Get(metadata', F_CATEGORY_CODE) = Get(metadata, F_CATEGORY_CODE)

\* C8: _resolve_code returns a code only for a category name equal to a key; a
\* name that is a proper substring or superstring of a key resolves to no code
\* and _validate_classification_code leaves 实体分类号 unchanged.
C8_ExactMatchOnly == [][ExactMatchStep]_vars

\* the final pass has run on 业务 (a proper substring of the key 业务类) with a
\* derivable year, and the extractor's code YWL is still there
C8_Witness ==
    /\ pc = "clean_title"
    /\ Get(metadata, F_CATEGORY_NAME) = PyStr(<<"ye", "wu">>)
    /\ EffectiveYear(metadata) = PyInt(2019)
    /\ Get(input, F_CATEGORY_CODE) = PyStr(S_YWL)
    /\ Get(metadata, F_CATEGORY_CODE) = PyStr(S_YWL)

\* C9: at the end of apply_all, with a derivable year and a final category that
\* is a key of the code tables, 实体分类号 is the code of that category in the
\* table of that year.
C9_CodeMatchesCategory ==
    (/\ pc = "done"
     /\ ~Falsy(metadata)
     /\ EffectiveYear(metadata) # PyNone
     /\ InLits(Get(metadata, F_CATEGORY_NAME), CodeKeys)) =>
        LET name == Get(metadata, F_CATEGORY_NAME).v
        IN  Get(metadata, F_CATEGORY_CODE) =
                PyStr(IF EffectiveYear(metadata).v >= CODE_SWITCH_YEAR
                      THEN CODE_NEW[name] ELSE CODE_OLD[name])

\* a 2019 record sent in as 业务类 / YWL that the briefing rule moved to 党群类
\* ends with the old-table code 001
C9_Witness ==
    /\ pc = "done"
    /\ Get(input, F_CATEGORY_NAME) = PyStr(S_business)
    /\ Get(input, F_CATEGORY_CODE) = PyStr(S_YWL)
    /\ BriefingFired
    /\ EffectiveYear(metadata) = PyInt(2019)
    /\ Get(metadata, F_CATEGORY_NAME) = PyStr(S_party)
    /\ Get(metadata, F_CATEGORY_CODE) = PyStr(CODE_OLD[S_party])

-----------------------------------------------------------------------------
(* The category enumeration, checked under SpecCode *)

CATEGORY_NAMES == {S_party, S_general, S_business}

\* C11: for every non-empty input record the record apply_all returns has
\* 实体分类名称 in {党群类, 综合类, 业务类}, whatever the extractor supplied.
C11_CategoryInEnumeration ==
    (pc = "done" /\ ~Falsy(metadata)) =>
        InLits(Get(metadata, F_CATEGORY_NAME), CATEGORY_NAMES)

-----------------------------------------------------------------------------
(* The security fields after the sanitizer, checked under SpecFix *)

\* C12: for every non-empty input record, after _force_fix_fields and up to the
\* end of apply_all, 密级 is null or a valid level and 保密期限 is null or a
\* valid period: every out-of-domain value of any type has become null.
C12_SecurityFieldsInDomain ==
    (pc # "force_fix" /\ ~Falsy(metadata)) =>
        /\ \/ Get(metadata, F_SECURITY_LEVEL) = PyNone
           \/ InLits(Get(metadata, F_SECURITY_LEVEL), VALID_SECURITY_LEVELS)
        /\ \/ Get(metadata, F_SECURITY_PERIOD) = PyNone
           \/ InLits(Get(metadata, F_SECURITY_PERIOD), VALID_SECRET_PERIODS)

-----------------------------------------------------------------------------
(* Effective-year selection, checked under SpecCode *)

\* the year by the stated selection: the first 4 characters of 文件形成时间
\* (a value of at least 4 characters) whenever they parse, otherwise 归档年度,
\* otherwise none
ClaimedYear(m) ==
    LET formed_time == strip(StrOrEmpty(Get(m, F_FORMATION_TIME)))
        first4 == SubSeq(formed_time, 1, 4)
    IN  IF Len(formed_time) >= 4 /\ IntParses(first4) THEN PyInt(IntOf(first4))
        ELSE IF IntParses(ArchivalYearStr(m)) THEN PyInt(IntOf(ArchivalYearStr(m)))
        ELSE PyNone

YearSelectionStep ==
    (pc = "validate" /\ ~Falsy(metadata)) =>
        LET year == ClaimedYear(metadata)
            name == GetOr(metadata, F_CATEGORY_NAME, PyStr(<<>>))
        IN  metadata' =
                IF year = PyNone \/ resolve_code(year.v, name) = <<>>
                THEN metadata
                ELSE Put(metadata, F_CATEGORY_CODE, PyStr(resolve_code(year.v, name)))

\* C13: _validate_classification_code takes the year from the first 4
\* characters of 文件形成时间 whenever they parse as an integer, only otherwise
\* from 归档年度, and returns the record unchanged when neither parses.
C13_YearSelection == [][YearSelectionStep]_vars

-----------------------------------------------------------------------------
(* Empty records and errors, checked under SpecFix *)

\* C14: given an empty or absent record (empty dict or None) every stage of
\* apply_all, and apply_all as a whole, returns the record unchanged and raises
\* no exception.
C14_EmptyRecordUnchanged ==
    Falsy(input) => (metadata = input /\ pc # "error")

\* apply_all has returned the empty dict it was given, the raw text a number
C14_Witness ==
    /\ pc = "done"
    /\ input = EmptyDict
    /\ metadata = EmptyDict
    /\ ocr_text = PyInt(5)

\* a value of the types a record holds: str, int or None
IsRecordValue(x) == x.t \in {"str", "int", "None"}

\* C15: for every record of str, int or None values and every raw text that is
\* a str or None, apply_all raises no exception: it is at a stage that runs
\* next or has returned.
C15_NoError ==
    (/\ \A f \in DOMAIN input : Falsy(input) \/ IsRecordValue(input[f])
     /\ ocr_text.t \in {"str", "None"}) =>
        (pc # "error" /\ pc \in RunningPositions \cup {"done"})

\* apply_all has returned for a record whose title, period, category and year
\* fields are numbers or junk and whose raw text is None
C15_Witness ==
    /\ pc = "done"
    /\ input \in MalformedRecords
    /\ Get(input, F_TITLE) = PyInt(5)
    /\ Get(input, F_FORMATION_TIME) = PyStr(<<"a", "b", "c", "d">>)
    /\ Get(input, F_ARCHIVAL_YEAR) = PyStr(<<"x">>)
    /\ ocr_text = PyNone

-----------------------------------------------------------------------------
(* Specification SpecPair: two invocations of apply_all on independent       *)
(* records, their stages and rules interleaved in every order.              *)

\* 简报批评通报, 批评通报, 培训, 通知
PairTitles ==
    {S_briefing \o S_criticism1, S_criticism1, <<"pei", "xun">>, S_notice}

PairRecords ==
    {With(BaseRecord,
          [title |-> PyStr(t), retention_period |-> p, file_number |-> n,
           category_name |-> PyStr(S_business)]) :
        t \in PairTitles, p \in {PyNone, PyStr(S_permanent)},
        n \in {PyNone, PyStr(S_doc_number)}}

InitPair ==
    \E m1 \in PairRecords, m2 \in PairRecords :
        /\ metadata = m1
        /\ input = m1
        /\ ocr_text = PyStr(<<>>)
        /\ pc = "force_fix"
        /\ period_locked = FALSE
        /\ other = StartCall(m2, PyStr(S_org))
        /\ exporter = NoExport
        /\ batch = NoBatch

SpecPair == InitPair /\ [][NextPair]_vars

\* C16: with the steps of two invocations interleaved in any order, each
\* invocation returns the record it returns when run alone; the lock of one
\* invocation is not read by the other and nothing survives a call.
C16_Reentrant ==
    /\ pc = "done" => metadata = apply_all(input, ocr_text)
    /\ other.pc = "done" => other.metadata = apply_all(other.input, other.ocr_text)

\* the first invocation, a briefing, holds its lock while the second, a
\* criticism notice supplied without a period, has run its rules and returned
\* with 30年
C16_Witness ==
    /\ period_locked
    /\ pc = "rule8"
    /\ other.pc = "done"
    /\ ~IsBriefing(TitleOf(other.input))
    /\ Contains(TitleOf(other.input), S_criticism1)
    /\ Get(other.input, F_RETENTION) = PyNone
    /\ Get(other.metadata, F_RETENTION) = PyStr(S_30y)

-----------------------------------------------------------------------------
(* The filing unit and the frame of apply_all, checked under SpecFix *)

FilingUnitStep ==
    (pc = "force_fix" /\ ~Falsy(metadata)) =>
        LET unit == Get(metadata, F_FILING_UNIT)
        IN  /\ (unit = PyNone \/ unit = PyStr(<<>>)) =>
                  Get(metadata', F_FILING_UNIT) = Get(metadata, F_RESPONSIBLE)
            /\ Truthy(unit) =>
                  Get(metadata', F_FILING_UNIT) = unit

\* C17: where the extractor left 立档单位名称 empty (absent, null or the empty
\* string) _force_fix_fields returns it equal to 责任者; a non-empty value is
\* returned as supplied.
C17_FilingUnitMirrors == [][FilingUnitStep]_vars

\* the sanitizer has filled an empty-string 立档单位名称 with 责任者
C17_Witness ==
    /\ pc = "rule2"
    /\ Get(input, F_FILING_UNIT) = PyStr(<<>>)
    /\ Get(input, F_RESPONSIBLE) = PyStr(S_org)
    /\ Get(metadata, F_FILING_UNIT) = PyStr(S_org)

\* the fields apply_all may create or change
WritableFields ==
    FORCE_NULL_FIELDS \cup
    {F_FILING_UNIT, F_SECURITY_LEVEL, F_SECURITY_PERIOD, F_CATEGORY_NAME,
     F_CATEGORY_CODE, F_RETENTION, F_OPEN_STATUS, F_DEFERRED_REASON, F_TITLE}

\* C18: apply_all creates or changes only the forced-null fields, 立档单位名称,
\* 密级, 保密期限, 实体分类名称, 实体分类号, 保管期限, 开放状态, 延期开放理由 and
\* 题名; every other field of the input has its input value, and every field
\* that is new is one of those fields of the schema.
C18_Frame ==
    ~Falsy(input) =>
        /\ \A f \in (DOMAIN input) \ WritableFields :
              f \in DOMAIN metadata /\ metadata[f] = input[f]
        /\ (DOMAIN metadata) \ (DOMAIN input) \subseteq WritableFields \cap SchemaFields

\* apply_all has returned for a briefing that came with three fields only: the
\* period, the category and the disclosure fields are new, 页数 is as supplied
C18_Witness ==
    /\ pc = "done"
    /\ DOMAIN input = {F_TITLE, F_SECURITY_LEVEL, F_PAGES}
    /\ IsBriefing(TitleOf(input))
    /\ {F_RETENTION, F_CATEGORY_NAME, F_OPEN_STATUS, F_DEFERRED_REASON,
        F_FILING_UNIT} \subseteq DOMAIN metadata
    /\ metadata[F_PAGES] = PyInt(3)

-----------------------------------------------------------------------------
(* Category writes of the rule chain, checked under Spec *)

\* the code of the category cat for the year of the record m
CodeFor(m, cat) ==
    IF EffectiveYear(m).v >= CODE_SWITCH_YEAR THEN CODE_NEW[cat] ELSE CODE_OLD[cat]

\* the step writes the category cat and the code that belongs to it
WritesCategory(cat) ==
    /\ Get(metadata', F_CATEGORY_NAME) = PyStr(cat)
    /\ EffectiveYear(metadata) # PyNone =>
          Get(metadata', F_CATEGORY_CODE) = PyStr(CodeFor(metadata, cat))

\* under the lock the step leaves 保管期限 alone
KeepsLockedPeriod ==
    period_locked => Get(metadata', F_RETENTION) = Get(metadata, F_RETENTION)

CategoryWriteStep ==
    LET title == TitleOf(metadata)
        content == ContentOf(metadata, ocr_text)
    IN  /\ (pc = "rule2" /\ Contains(title, S_briefing)) =>
              \E cat \in CATEGORY_NAMES : WritesCategory(cat)
        /\ (pc = "rule1" /\ IsInternalTraining(title, content)) =>
              (WritesCategory(S_business) /\ KeepsLockedPeriod)
        /\ (/\ pc = "rule6"
            /\ AnyIn(REGULATION_KEYWORDS, title)
            /\ AnyIn(INTERNAL_ORG_KEYWORDS, content)) =>
              (WritesCategory(S_general) /\ KeepsLockedPeriod)
        /\ (pc = "rule10" /\ IsBranchAdjustRequest(content)) =>
              (WritesCategory(S_party) /\ KeepsLockedPeriod)
        /\ (/\ pc = "guard"
            /\ Get(metadata, F_CATEGORY_NAME) = PyStr(S_business)
            /\ ~AnyIn(BUSINESS_LEGITIMATE_KEYWORDS, content)
            /\ AnyIn(BUSINESS_FALSE_POSITIVE_DOC_TYPES, title)) =>
              (WritesCategory(S_general) /\ KeepsLockedPeriod)

\* C19: the lock guards 保管期限 only: each rule that rewrites 实体分类名称
\* writes the category and re-resolves the code whenever its condition holds,
\* locked or not, and under the lock leaves 保管期限 as it is.
C19_LockGuardsPeriodOnly == [][CategoryWriteStep]_vars

\* under the lock of a briefing that rule 2 had made 业务类, rule 6 has written
\* 综合类 and its code, and the period is still 10年
C19_Witness ==
    /\ pc = "rule8"
    /\ period_locked
    /\ AnyIn(BRIEFING_BUSINESS_KEYWORDS, ContentOf(input, ocr_text))
    /\ ~AnyIn(BRIEFING_PARTY_KEYWORDS, ContentOf(input, ocr_text))
    /\ AnyIn(REGULATION_KEYWORDS, TitleOf(input))
    /\ AnyIn(INTERNAL_ORG_KEYWORDS, ContentOf(input, ocr_text))
    /\ Get(metadata, F_CATEGORY_NAME) = PyStr(S_general)
    /\ Get(metadata, F_CATEGORY_CODE) = PyStr(CodeFor(metadata, S_general))
    /\ Get(metadata, F_RETENTION) = PyStr(S_10y)

\* the category of a briefing by the priority party > business > general
BriefingPriority(content) ==
    IF \E kw \in BRIEFING_PARTY_KEYWORDS : Contains(content, kw) THEN S_party
    ELSE IF \E kw \in BRIEFING_BUSINESS_KEYWORDS : Contains(content, kw) THEN S_business
    ELSE S_general

\* C20: right after the briefing rule the category of a briefing is 党群类 if a
\* party keyword matches the content, else 业务类 if a business keyword matches,
\* else 综合类, with the code of that category; and a 2020 briefing with no such
\* keyword on which no later category rule fires ends apply_all as 综合类 with
\* the new-table code and 10年, file number or not.
C20_BriefingSubclassification ==
    LET content == ContentOf(input, ocr_text)
    IN  /\ (pc = "rule1" /\ BriefingFired) =>
              /\ Get(metadata, F_CATEGORY_NAME) = PyStr(BriefingPriority(content))
              /\ Get(metadata, F_CATEGORY_CODE) =
                     PyStr(CodeFor(metadata, BriefingPriority(content)))
        /\ (/\ pc = "done"
            /\ BriefingFired
            /\ EffectiveYear(input) = PyInt(2020)
            /\ BriefingPriority(content) = S_general
            /\ ~IsInternalTraining(TitleOf(input), content)
            /\ ~(AnyIn(REGULATION_KEYWORDS, TitleOf(input))
                    /\ AnyIn(INTERNAL_ORG_KEYWORDS, content))
            /\ ~IsBranchAdjustRequest(content)) =>
              /\ Get(metadata, F_CATEGORY_NAME) = PyStr(S_general)
              /\ Get(metadata, F_CATEGORY_CODE) = PyStr(CODE_NEW[S_general])
              /\ Get(metadata, F_RETENTION) = PyStr(S_10y)

\* a 2020 briefing sent in as 业务类 / 003 / 永久 with a file number has ended
\* as 综合类 / ZHL / 10年
C20_Witness ==
    /\ pc = "done"
    /\ BriefingFired
    /\ HasNumber(input)
    /\ Get(input, F_RETENTION) = PyStr(S_permanent)
    /\ Get(input, F_CATEGORY_NAME) = PyStr(S_business)
    /\ EffectiveYear(input) = PyInt(2020)
    /\ Get(metadata, F_CATEGORY_NAME) = PyStr(S_general)
    /\ Get(metadata, F_CATEGORY_CODE) = PyStr(CODE_NEW[S_general])
    /\ Get(metadata, F_RETENTION) = PyStr(S_10y)

-----------------------------------------------------------------------------
(* The file-number top-up (rule 7), checked under Spec *)

\* the chain has been left; no later stage writes 保管期限
AfterChain == pc \in {"open_status", "validate", "clean_title", "done"}

\* some rule writing 10年 ahead of rule 7 applies: address change or maintenance
TenYearRuleApplies ==
    LET title == TitleOf(input)
        content == ContentOf(input, ocr_text)
    IN  \/ AnyIn(ADDRESS_CHANGE_KEYWORDS, content)
        \/ AnyIn(MAINTENANCE_KEYWORDS, content) /\ AnyIn(MAINTENANCE_DOC_TYPES, title)

\* C21: at the end of _apply_supplementary_rules a record with a non-empty
\* 文件编号 has 保管期限 at 30年 or above in PERIOD_ORDER when the briefing rule
\* did not fire, whatever was supplied and whatever the earlier rules wrote;
\* when the briefing rule fired the period is 10年.
C21_FileNumberTopUp ==
    (AfterChain /\ ~Falsy(input) /\ HasNumber(input)) =>
        IF BriefingFired
        THEN Get(metadata, F_RETENTION) = PyStr(S_10y)
        ELSE PeriodRank(Get(metadata, F_RETENTION)) >= PERIOD_ORDER[S_30y]

\* a numbered record without 保管期限, set to 10年 by the address-change or
\* maintenance rule, has left the chain with 30年
C21_Witness ==
    /\ pc = "open_status"
    /\ HasNumber(input)
    /\ ~BriefingFired
    /\ TenYearRuleApplies
    /\ Get(input, F_RETENTION) = PyNone
    /\ Get(metadata, F_RETENTION) = PyStr(S_30y)

-----------------------------------------------------------------------------
(* The internal-training rule (rule 1), checked under Spec *)

\* the firing condition of rule 1, from the three keyword tables
TrainingFires ==
    LET title == TitleOf(metadata)
        content == ContentOf(metadata, ocr_text)
    IN  /\ \E kw \in TRAINING_KEYWORDS : Contains(title, kw)
        /\ \A kw \in TRAINING_MGMT_KEYWORDS : ~Contains(title, kw)
        /\ \A kw \in PARTY_TRAINING_KEYWORDS : ~Contains(content, kw)

\* the record rule 1 leaves when it fires
TrainingResult ==
    LET before == Get(metadata, F_RETENTION)
        raised == ~period_locked /\ PeriodRank(before) < PERIOD_ORDER[S_30y]
        m1 == Put(metadata, F_CATEGORY_NAME, PyStr(S_business))
        m2 == IF raised THEN Put(m1, F_RETENTION, PyStr(S_30y)) ELSE m1
    IN  IF EffectiveYear(metadata) = PyNone
        THEN m2
        ELSE Put(m2, F_CATEGORY_CODE, PyStr(CodeFor(metadata, S_business)))

TrainingStep ==
    pc = "rule1" =>
        metadata' = IF TrainingFires THEN TrainingResult ELSE metadata

\* C22: the internal-training rule fires exactly when the title has a training
\* keyword, the title has no training-management keyword and the content has
\* no party-training keyword; firing, it sets 实体分类名称 = 业务类, re-resolves
\* the code, and writes 保管期限 = 30年 only with the lock clear and the period
\* below 30年; not firing, it changes nothing.
C22_InternalTraining == [][TrainingStep]_vars

\* rule 1 has fired on a 永久 record bearing a stale code of another year's
\* table: the category and code are written, the period is kept
C22_Witness ==
    /\ pc = "rule3"
    /\ AnyIn(TRAINING_KEYWORDS, TitleOf(input))
    /\ ~AnyIn(TRAINING_MGMT_KEYWORDS, TitleOf(input))
    /\ ~AnyIn(PARTY_TRAINING_KEYWORDS, ContentOf(input, ocr_text))
    /\ ~period_locked
    /\ Get(input, F_RETENTION) = PyStr(S_permanent)
    /\ Get(metadata, F_RETENTION) = PyStr(S_permanent)
    /\ Get(metadata, F_CATEGORY_NAME) = PyStr(S_business)
    /\ Get(metadata, F_CATEGORY_CODE) # Get(input, F_CATEGORY_CODE)

-----------------------------------------------------------------------------
(* The election-result exclusion of rule 10, checked under Spec *)

\* content matches an election-result keyword
IsElectionResult ==
    \E kw \in PARTY_BRANCH_ELECTION_RESULT_KEYWORDS :
        Contains(ContentOf(metadata, ocr_text), kw)

\* the party-branch, adjustment, target-role and 请示 conditions all hold
BranchAdjustConditions ==
    LET content == ContentOf(metadata, ocr_text)
    IN  /\ AnyIn(PARTY_BRANCH_KEYWORDS, content)
        /\ AnyIn(PARTY_BRANCH_ADJUST_KEYWORDS, content)
        /\ AnyIn(PARTY_BRANCH_TARGET_KEYWORDS, content)
        /\ Contains(content, S_request)

ElectionResultStep ==
    (pc = "rule10" /\ IsElectionResult) =>
        \A f \in {F_CATEGORY_NAME, F_CATEGORY_CODE, F_RETENTION} :
            Get(metadata', f) = Get(metadata, f)

\* C23: when the content matches an election-result keyword the party-branch
\* adjustment rule changes neither 实体分类名称, 实体分类号 nor 保管期限, even with
\* its other four conditions met; a 永久 period is not lowered to 30年.
C23_ElectionResultExcluded == [][ElectionResultStep]_vars

\* rule 10 has passed over a 永久 election-result record that meets its other
\* four conditions
C23_Witness ==
    /\ pc = "guard"
    /\ IsElectionResult
    /\ BranchAdjustConditions
    /\ ~period_locked
    /\ Get(metadata, F_RETENTION) = PyStr(S_permanent)
    /\ Get(metadata, F_CATEGORY_NAME) = PyStr(S_business)

-----------------------------------------------------------------------------
(* Specification SpecCriticism: criticism notices.  The title carries the    *)
(* criticism keywords next to the triggers of other rules; 保管期限, 密级,     *)
(* 文件编号 and the disclosure keywords of the raw text vary.                  *)

\* 简报, 通知, 批评通报, 通报批评, 中标结果
CriticismTitlePhrases ==
    <<S_briefing, S_notice, S_criticism1, S_criticism2,
      <<"zhong", "biao", "jie", "guo">>>>

\* 地址变更, 安装, 工资表, 报价单
CriticismTextPhrases ==
    <<<<"di2", "zhi4", "bian", "geng">>, <<"an2", "zhuang">>,
      <<"gong2", "zi", "biao2">>, <<"bao", "jia", "dan">>>>

CriticismRecords ==
    {With(BaseRecord,
          [title |-> PyStr(t), retention_period |-> p, file_number |-> n,
           security_level |-> l]) :
        t \in PhraseTexts(CriticismTitlePhrases, MaxTitlePhrases),
        p \in RetentionInputs \cup {PyStr(<<"x">>)},
        n \in {PyNone, PyStr(S_doc_number)},
        l \in {PyNone, PyStr(S_internal)}}

InitCriticism ==
    \E m \in CriticismRecords,
       raw \in {PyStr(x) : x \in PhraseTexts(CriticismTextPhrases, MaxTextPhrases)} :
        Start(m, raw)

SpecCriticism == InitCriticism /\ [][Next]_vars

\* the title has 批评通报 or 通报批评 and has no 简报
IsCriticismNotice(m) ==
    /\ \E kw \in {S_criticism1, S_criticism2} : Contains(TitleOf(m), kw)
    /\ ~Contains(TitleOf(m), S_briefing)

\* C24: a record whose title contains 批评通报 or 通报批评 and no 简报 leaves the
\* rule chain with 保管期限 = 30年, whatever was supplied and whichever earlier
\* rule wrote 10年; with no controlled 密级 and no privacy or non-exempt
\* commercial keyword match its disclosure result is 控制 with 负面信息.
C24_CriticismNotice ==
    (~Falsy(input) /\ IsCriticismNotice(input)) =>
        /\ AfterChain => Get(metadata, F_RETENTION) = PyStr(S_30y)
        /\ (/\ pc \in {"validate", "clean_title", "done"}
            /\ ~CondSecurity(metadata)
            /\ ~CondPrivacy(metadata, ocr_text)
            /\ ~CondCommercial(metadata, ocr_text))
              => /\ Get(metadata, F_OPEN_STATUS) = PyStr(S_controlled)
                 /\ Get(metadata, F_DEFERRED_REASON) = PyStr(S_negative)

\* an unnumbered criticism notice about an address change, supplied as 永久,
\* with a commercial keyword in the text and the exemption in the title
C24_Witness ==
    /\ pc = "done"
    /\ IsCriticismNotice(input)
    /\ AnyIn(ADDRESS_CHANGE_KEYWORDS, ContentOf(input, ocr_text))
    /\ AnyIn(COMMERCIAL_KEYWORDS, TextOf(ocr_text))
    /\ ~HasNumber(input)
    /\ Get(input, F_RETENTION) = PyStr(S_permanent)
    /\ Get(metadata, F_RETENTION) = PyStr(S_30y)
    /\ Get(metadata, F_DEFERRED_REASON) = PyStr(S_negative)

-----------------------------------------------------------------------------
(* The origin of 工作秘密, checked under SpecOpen *)

\* apply_all has returned a non-empty record
Returned == pc = "done" /\ ~Falsy(metadata)

\* the 密级 the extractor supplied is a value outside VALID_SECURITY_LEVELS
SuppliedLevelOutOfDomain ==
    LET level == Get(input, F_SECURITY_LEVEL)
    IN  Truthy(level) /\ ~InLits(level, VALID_SECURITY_LEVELS)

\* C25: in the record apply_all returns, 延期开放理由 is 工作秘密 exactly when
\* the returned 密级 is in CONTROLLED_SECURITY_LEVELS; title and raw text never
\* produce 工作秘密, and neither does an out-of-domain 密级 of the extractor,
\* which the sanitizer has nulled before the disclosure classifier runs.
C25_WorkSecretFromLevelOnly ==
    Returned =>
        /\ ReasonIs(S_work_secret) <=>
              (\E level \in CONTROLLED_SECURITY_LEVELS :
                    Get(metadata, F_SECURITY_LEVEL) = PyStr(level))
        /\ SuppliedLevelOutOfDomain => ~ReasonIs(S_work_secret)

\* a record supplied with an out-of-domain 密级 and the reason 工作秘密 is
\* returned with neither
C25_Witness ==
    /\ Returned
    /\ SuppliedLevelOutOfDomain
    /\ Get(input, F_DEFERRED_REASON) = PyStr(S_work_secret)
    /\ Get(input, F_OPEN_STATUS) = PyStr(S_controlled)
    /\ Get(metadata, F_SECURITY_LEVEL) = PyNone
    /\ Get(metadata, F_DEFERRED_REASON) = PyNone

-----------------------------------------------------------------------------
(* The disclosure fields of the extractor are ignored, checked under SpecOpen *)

\* values of 开放状态 and of 延期开放理由 an extractor may supply
StatusValues == {PyNone, PyStr(S_open), PyStr(<<"x">>)}
ReasonValues == {PyNone, PyStr(S_work_secret), PyStr(S_negative)}

\* the input with other disclosure fields, or with the two keys absent
DisclosureVariants ==
    {Put(Put(input, F_OPEN_STATUS, o), F_DEFERRED_REASON, r) :
        o \in StatusValues, r \in ReasonValues}
    \cup {Without(Without(input, F_OPEN_STATUS), F_DEFERRED_REASON)}

\* a record holding only the 题名 and 密级 of the input
TitleAndLevelOnly ==
    [f \in {F_TITLE, F_SECURITY_LEVEL} |-> Get(input, f)]

\* C26: two non-empty records that differ only in the supplied 开放状态 and
\* 延期开放理由, with the same raw text, are returned identical by apply_all;
\* the returned disclosure fields depend on 密级, title and raw text only.
C26_SuppliedDisclosureIgnored ==
    Returned =>
        /\ \A m \in DisclosureVariants : apply_all(m, ocr_text) = metadata
        /\ \A f \in {F_OPEN_STATUS, F_DEFERRED_REASON} :
              Get(apply_all(TitleAndLevelOnly, ocr_text), f) = Get(metadata, f)

\* a record supplied as x / 工作秘密 with 密级 非密 and no disclosure keyword
\* is returned as 开放 without a reason
C26_Witness ==
    /\ Returned
    /\ Get(input, F_OPEN_STATUS) = PyStr(<<"x">>)
    /\ Get(input, F_DEFERRED_REASON) = PyStr(S_work_secret)
    /\ Get(input, F_SECURITY_LEVEL) = PyStr(S_non_secret)
    /\ Get(metadata, F_OPEN_STATUS) = PyStr(S_open)
    /\ Get(metadata, F_DEFERRED_REASON) = PyNone

-----------------------------------------------------------------------------
(* The commercial-secret exemption, checked under SpecOpen *)

\* the title matches a commercial-secret exemption keyword (中标结果, 中标公示)
TitleExempt(m) == \E kw \in COMMERCIAL_EXEMPT_KEYWORDS : Contains(TitleOf(m), kw)

\* C27: every record whose title matches a commercial-secret exemption keyword
\* is returned by apply_all with 开放状态 = 开放 and 延期开放理由 = null,
\* whatever its 密级 and whatever other keywords its title or raw text hold.
C27_BidResultsAlwaysOpen ==
    (Returned /\ TitleExempt(input)) =>
        /\ Get(metadata, F_OPEN_STATUS) = PyStr(S_open)
        /\ Get(metadata, F_DEFERRED_REASON) = PyNone

-----------------------------------------------------------------------------
(* The business-category guard as a post-condition, checked under Spec *)

\* the content matches a legitimate-business keyword
LegitimateBusiness ==
    \E kw \in BUSINESS_LEGITIMATE_KEYWORDS :
        Contains(ContentOf(metadata, ocr_text), kw)

\* the title contains a document-type token typical of 综合类
FalsePositiveDocType ==
    \E doc_type \in BUSINESS_FALSE_POSITIVE_DOC_TYPES :
        Contains(TitleOf(metadata), doc_type)

\* C28: at the end of _apply_supplementary_rules, 实体分类名称 = 业务类 implies
\* that the content matches a legitimate-business keyword or the title has no
\* document-type token typical of 综合类, also when 业务类 was written earlier
\* in the invocation by the briefing or the training rule.
C28_BusinessGuardPostcondition ==
    (pc = "open_status" /\ Get(metadata, F_CATEGORY_NAME) = PyStr(S_business)) =>
        (LegitimateBusiness \/ ~FalsePositiveDocType)

\* a notice supplied as 业务类 without a legitimate-business keyword has left
\* the chain as 综合类
C28_Witness ==
    /\ pc = "open_status"
    /\ Get(input, F_CATEGORY_NAME) = PyStr(S_business)
    /\ FalsePositiveDocType
    /\ ~LegitimateBusiness
    /\ Get(metadata, F_CATEGORY_NAME) = PyStr(S_general)
    /\ Get(metadata, F_CATEGORY_CODE) # Get(input, F_CATEGORY_CODE)

-----------------------------------------------------------------------------
(* Exporter (src/processors/exporter.py).  HEADERS is the class-level cache  *)
(* of the export templates; a result is a dict with a "metadata" entry.      *)

MaxResults == 2

\* the rule engine is not running
EngineIdle ==
    /\ metadata = PyNone
    /\ input = PyNone
    /\ ocr_text = PyNone
    /\ pc = "idle"
    /\ period_locked = FALSE
    /\ other = NoCall

\* the export configuration as json.load returns it: template -> column names
LoadedHeaders == "default" :> <<F_TITLE, F_RETENTION, F_PAGES>>

\* what the file at config_path may hold: the templates, an empty object, or
\* nothing that can be opened and parsed
Unreadable == [t |-> "unreadable"]
ConfigFiles == {LoadedHeaders, EmptyDict, Unreadable}

\* an exception, and a value returned
Raises(exc) == [exc |-> exc]
Returns(value) == [exc |-> "none", value |-> value]

\* get_headers(template)
get_headers(HEADERS, template) ==
    IF Falsy(HEADERS) THEN Raises("RuntimeError")
    ELSE IF template \notin DOMAIN HEADERS THEN Raises("ValueError")
    ELSE Returns(HEADERS[template])

\* the inner loop over the template's fields: meta.get(field, ""), None -> ""
ExportItem(meta, headers) ==
    [field \in {headers[i] : i \in 1..Len(headers)} |->
        LET val == GetOr(meta, field, PyStr(<<>>))
        IN  IF val = PyNone THEN PyStr(<<>>) ELSE val]

\* the loop over results: the items of the results that have metadata, up to
\* the first result that is no dict (result.get raises AttributeError)
RECURSIVE ExportItems(_, _)
ExportItems(results, headers) ==
    IF results = <<>> THEN [items |-> <<>>, exc |-> "none"]
    ELSE LET result == Head(results)
         IN  IF ~IsDict(result) THEN [items |-> <<>>, exc |-> "AttributeError"]
             ELSE LET meta == GetOr(result, "metadata", EmptyDict)
                      rest == ExportItems(Tail(results), headers)
                  IN  IF Falsy(meta) THEN rest
                      ELSE [items |-> <<ExportItem(meta, headers)>> \o rest.items,
                            exc |-> rest.exc]

\* a line of the CSV file: the cells as text, in the order of the headers
CsvRow(item, headers) == [i \in 1..Len(headers) |-> str(item[headers[i]])]

\* what a call leaves behind: how it ended, the file, the message printed
Outcome(end, file, printed) == [end |-> end, file |-> file, printed |-> printed]

\* export_to_csv(results, output_path, template); writable tells whether
\* open(output_path, "w") succeeds
export_to_csv(HEADERS, results, writable, template) ==
    IF results = <<>> THEN Outcome("returned", PyNone, "no data")
    ELSE LET headers == get_headers(HEADERS, template)
         IN  IF headers.exc # "none"
             THEN Outcome("returned", PyNone, headers.exc)
             ELSE IF ~writable THEN Outcome("returned", PyNone, "OSError")
             ELSE LET loop == ExportItems(results, headers.value)
                      lines == <<headers.value>> \o
                               [i \in 1..Len(loop.items) |->
                                    CsvRow(loop.items[i], headers.value)]
                  IN  IF loop.exc # "none"
                      THEN Outcome("returned", lines, loop.exc)
                      ELSE Outcome("returned", lines, "exported")

\* export_to_json(results, output_path, template)
export_to_json(HEADERS, results, writable, template) ==
    IF results = <<>> THEN Outcome("returned", PyNone, "no data")
    ELSE LET headers == get_headers(HEADERS, template)
         IN  IF headers.exc # "none"
             THEN Outcome("returned", PyNone, headers.exc)
             ELSE LET loop == ExportItems(results, headers.value)
                  IN  IF loop.exc # "none"
                      THEN Outcome("returned", PyNone, loop.exc)
                      ELSE IF ~writable THEN Outcome("returned", PyNone, "OSError")
                      ELSE Outcome("returned", loop.items, "exported")

\* results passed to the exporter: with metadata, without, and no dict at all
ExportedRecord ==
    (F_TITLE :> PyStr(<<"x">>)) @@ (F_RETENTION :> PyNone) @@ (F_PAGES :> PyInt(3))
ResultInputs ==
    {"metadata" :> ExportedRecord, "metadata" :> PyNone, PyNone}
ResultLists == UNION {[1..n -> ResultInputs] : n \in 0..MaxResults}
TemplateNames == {"default", "summary"}

\* Exporter.initialize(config_path)
ExporterInitialize ==
    /\ exporter.pc = "idle"
    /\ \E config \in ConfigFiles :
          exporter' = IF config = Unreadable
                      THEN [exporter EXCEPT !.pc = "raised", !.printed = "RuntimeError"]
                      ELSE [exporter EXCEPT !.HEADERS = config]
    /\ UNCHANGED <<metadata, ocr_text, pc, period_locked, input, other, batch>>

\* a call of an export method ends as out
ExportEnds(method, results, writable, template, out) ==
    /\ exporter.pc = "idle"
    /\ exporter' = [exporter EXCEPT
                        !.pc = out.end, !.file = out.file, !.printed = out.printed,
                        !.call = [method |-> method, results |-> results,
                                  writable |-> writable, template |-> template]]
    /\ UNCHANGED <<metadata, ocr_text, pc, period_locked, input, other, batch>>

ExportToCsv ==
    \E results \in ResultLists, writable \in BOOLEAN, template \in TemplateNames :
        ExportEnds("csv", results, writable, template,
                   export_to_csv(exporter.HEADERS, results, writable, template))

ExportToJson ==
    \E results \in ResultLists, writable \in BOOLEAN, template \in TemplateNames :
        ExportEnds("json", results, writable, template,
                   export_to_json(exporter.HEADERS, results, writable, template))

NextExport ==
    \/ ExporterInitialize
    \/ ExportToCsv
    \/ ExportToJson

InitExport ==
    /\ EngineIdle
    /\ batch = NoBatch
    /\ exporter = [pc |-> "idle", HEADERS |-> EmptyDict, call |-> PyNone,
                   file |-> PyNone, printed |-> "none"]

SpecExport == InitExport /\ [][NextExport]_vars

\* an export method was called with results to export and met an export
\* error: HEADERS never initialized, an unknown template, or an output file
\* that cannot be written
ExportError ==
    /\ exporter.call # PyNone
    /\ exporter.call.results # <<>>
    /\ \/ Falsy(exporter.HEADERS)
       \/ exporter.call.template \notin DOMAIN exporter.HEADERS
       \/ ~exporter.call.writable

\* C29: export_to_csv and export_to_json raise an exception to the caller
\* when an export error occurs (Exporter never initialized, unknown template
\* name, output file that cannot be written).
C29_ExportErrorsRaise == ExportError => exporter.pc = "raised"

-----------------------------------------------------------------------------
(* BatchProcessor.batch_process_archives (src/processors/batch_processor.py). *)
(* archive_dict is the sequence of its items in insertion order; an archive  *)
(* is described by what its handling meets: the number of its image files,   *)
(* whether stat() of the first one succeeds, and what the classifier does.   *)

MaxArchives == 2
MaxPages == 1

ArchiveKinds ==
    [pages : 0..MaxPages, stat : {"ok", "raises"},
     classifier : {"metadata", "empty", "raises"}]

\* the key of the i-th item of archive_dict
ArchiveName(i) == PyStr(NatToStr(i))

ArchiveDicts == UNION {[1..n -> ArchiveKinds] : n \in 0..MaxArchives}

\* output_dir: not given, usable, not creatable, or not writable
OutputDirs == {"none", "ok", "no_mkdir", "no_write"}

\* what classifier.process_multi_page_document returns when it extracts a record
ClassifiedRecord == F_TITLE :> PyStr(<<"x">>)

\* source_folder and created_time: None for an archive without images
FileInfo(a, text) == IF a.pages > 0 THEN PyStr(text) ELSE PyNone

\* the result of one archive whose first image could be read: the try block
\* around the classifier call, and its except branch
ArchiveResult(i, a) ==
    LET base_result == [archive_name |-> ArchiveName(i), page_count |-> a.pages]
    IN  CASE a.classifier = "raises" ->
                base_result @@ [metadata |-> PyNone, status |-> "error",
                                error |-> "exception"]
          [] a.classifier = "empty" ->
                base_result @@ [metadata |-> PyNone, status |-> "failed",
                                error |-> "no metadata"]
          [] OTHER ->
                base_result @@
                [metadata |-> ClassifiedRecord @@ (F_PAGES :> PyInt(a.pages))
                                @@ ("source_folder" :> FileInfo(a, <<"d">>))
                                @@ ("processed_time" :> FileInfo(a, <<"t">>)),
                 status |-> "success"]

BatchUnchanged ==
    UNCHANGED <<metadata, ocr_text, pc, period_locked, input, other, exporter>>

\* entry of batch_process_archives: the counters, and the output directory
BatchBegin ==
    /\ batch.pc = "call"
    /\ batch' = IF batch.output_dir = "no_mkdir"
                THEN [batch EXCEPT !.pc = "raised", !.exc = "mkdir"]
                ELSE [batch EXCEPT !.pc = "loop"]
    /\ BatchUnchanged

\* one iteration of the loop over archive_dict.items()
ProcessArchive ==
    /\ batch.pc = "loop"
    /\ batch.idx < Len(batch.archive_dict)
    /\ LET i == batch.idx + 1
           a == batch.archive_dict[i]
           result == ArchiveResult(i, a)
           success == IF result.status = "success" THEN 1 ELSE 0
           appended == [batch EXCEPT !.idx = i,
                                     !.results = Append(@, result),
                                     !.success_count = @ + success,
                                     !.fail_count = @ + (1 - success)]
       IN  batch' =
             IF a.pages > 0 /\ a.stat = "raises"
             THEN [batch EXCEPT !.pc = "raised", !.exc = "stat"]
             ELSE IF batch.output_dir = "no_write"
             THEN [appended EXCEPT !.pc = "raised", !.exc = "save"]
             ELSE IF batch.output_dir = "ok"
             THEN [appended EXCEPT !.saved = @ + 1]
             ELSE appended
    /\ BatchUnchanged

\* after the loop: the summary file, the statistics, return results
BatchFinish ==
    /\ batch.pc = "loop"
    /\ batch.idx = Len(batch.archive_dict)
    /\ batch' =
         IF batch.output_dir = "no_write"
         THEN [batch EXCEPT !.pc = "raised", !.exc = "save"]
         ELSE IF batch.output_dir = "ok"
         THEN [batch EXCEPT !.pc = "returned", !.saved = @ + 1]
         ELSE [batch EXCEPT !.pc = "returned"]
    /\ BatchUnchanged

NextBatch ==
    \/ BatchBegin
    \/ ProcessArchive
    \/ BatchFinish

InitBatch ==
    /\ EngineIdle
    /\ exporter = NoExport
    /\ \E archive_dict \in ArchiveDicts, output_dir \in OutputDirs :
          batch = [pc |-> "call", archive_dict |-> archive_dict,
                   output_dir |-> output_dir, idx |-> 0, results |-> <<>>,
                   success_count |-> 0, fail_count |-> 0, saved |-> 0,
                   exc |-> "none"]

SpecBatch == InitBatch /\ [][NextBatch]_vars

\* C30: batch_process_archives records exactly one result per archive, in
\* input order, each with status success, failed or error, and success_count
\* + fail_count is the number of archives; an exception from the classifier or
\* from reading an archive's first image file becomes that archive's error
\* result and never keeps the remaining archives from being processed.
C30_BatchErrorIsolation ==
    /\ batch.pc = "raised" => batch.exc \notin {"classifier", "stat"}
    /\ batch.pc = "returned" =>
          /\ Len(batch.results) = Len(batch.archive_dict)
          /\ \A i \in 1..Len(batch.results) :
                /\ batch.results[i].archive_name = ArchiveName(i)
                /\ batch.results[i].status \in {"success", "failed", "error"}
          /\ batch.success_count + batch.fail_count = Len(batch.archive_dict)

====
